---- MODULE Spec2Model ----
(***************************************************************************)
(* Model of the Salesforce exporter (src/salesforce_exporter).             *)
(*                                                                         *)
(* Text (SOQL templates, filters, conditions) is a sequence of atoms: an   *)
(* atom is a word or one whitespace character (" " or "\n").  A data frame *)
(* is a record [cols, rows]: cols is the set of column names, rows the     *)
(* sequence of rows, each a function from cols to a cell; NULL is a        *)
(* missing cell (None / NaN).                                              *)
(***************************************************************************)
EXTENDS Integers, Sequences, FiniteSets, TLC

VARIABLES
    queries,              \* config.queries (immutable after load)
    combined_outputs,     \* config.combined_outputs (immutable after load)
    archive_directory,    \* config.csv.archive_directory is set
    db,                   \* Salesforce content: rows each object holds
    now,                  \* datetime.now(tz) read by number_of_use
    pc,                   \* position of run()
    idx,                  \* index of the query / combined output in progress
    results_cache,        \* run(): results_cache
    batches_to_process,   \* _export_query: batches not yet executed
    dataframes,           \* _export_query: non-empty batch results so far
    sent,                 \* every call of sf.query_all: [name, text]
    written,              \* every call of _write_output: [name, file, df]
    lastSink,             \* outcome of the latest _write_output call
    uploaded,             \* result flag of the latest upload_to_s3 call
    err,                  \* exception that left run(), "none" when none
    arg,                  \* input of the function under test (function specs)
    ret                   \* its result

vars == <<queries, combined_outputs, archive_directory, db, now, pc, idx,
          results_cache, batches_to_process, dataframes, sent, written,
          lastSink, uploaded, err, arg, ret>>

-----------------------------------------------------------------------------
(* Sequences and text *)

Range(s) == {s[i] : i \in DOMAIN s}
Min(a, b) == IF a < b THEN a ELSE b
Front(s) == SubSeq(s, 1, Len(s) - 1)
Last(s) == s[Len(s)]

RECURSIVE Flatten(_)
Flatten(ss) == IF ss = <<>> THEN <<>> ELSE Head(ss) \o Flatten(Tail(ss))

Whitespace == {" ", "\n"}

RECURSIVE LStrip(_)
LStrip(t) == IF t # <<>> /\ Head(t) \in Whitespace THEN LStrip(Tail(t)) ELSE t

RECURSIVE RStrip(_)
RStrip(t) == IF t # <<>> /\ Last(t) \in Whitespace THEN RStrip(Front(t)) ELSE t

\* str.strip()
Strip(t) == RStrip(LStrip(t))

\* str.lower(), on the atoms whose case the code looks at
LowerAtom(a) == IF a \in {"WHERE", "Where", "where"} THEN "where" ELSE a
Lower(t) == [i \in DOMAIN t |-> LowerAtom(t[i])]

\* needle in text
Contains(t, needle) ==
    \E i \in 0..(Len(t) - Len(needle)) :
        \A k \in 1..Len(needle) : t[i + k] = needle[k]

\* text.endswith(needle)
EndsWith(t, needle) ==
    /\ Len(t) >= Len(needle)
    /\ \A k \in 1..Len(needle) : t[Len(t) - Len(needle) + k] = needle[k]

\* sep.join(parts)
RECURSIVE Join(_, _)
Join(sep, parts) ==
    IF parts = <<>> THEN <<>>
    ELSE IF Len(parts) = 1 THEN parts[1]
    ELSE parts[1] \o sep \o Join(sep, Tail(parts))

-----------------------------------------------------------------------------
(* QueryConfig.build_query *)

HasWhereClause(base_soql) ==
    LET lowered == Lower(base_soql) IN
        \/ Contains(lowered, <<" ", "where", " ">>)
        \/ EndsWith(lowered, <<" ", "where">>)
        \/ Contains(lowered, <<"\n", "where", " ">>)

BuildConditions(where, additional_conditions) ==
    (IF where # <<>> THEN <<Strip(where)>> ELSE <<>>)
        \o [i \in DOMAIN SelectSeq(additional_conditions,
                                   LAMBDA c : c # <<>> /\ Strip(c) # <<>>) |->
              Strip(SelectSeq(additional_conditions,
                              LAMBDA c : c # <<>> /\ Strip(c) # <<>>)[i])]

build_query(soql, where, additional_conditions) ==
    LET conditions == BuildConditions(where, additional_conditions)
        base_soql == Strip(soql)
    IN  IF conditions = <<>> THEN base_soql
        ELSE IF HasWhereClause(base_soql)
             THEN base_soql \o <<" ", "AND", " ">>
                            \o Join(<<" ", "AND", " ">>, conditions)
             ELSE base_soql \o <<" ", "WHERE", " ">>
                            \o Join(<<" ", "AND", " ">>, conditions)

-----------------------------------------------------------------------------
(* Data frames *)

NULL == "<null>"

\* pd.DataFrame()
EmptyFrame == [cols |-> {}, rows |-> <<>>]

\* df.empty: some axis has length 0
IsEmpty(df) == df.rows = <<>> \/ df.cols = {}

\* df[column] as a list
Column(df, c) == [i \in DOMAIN df.rows |-> df.rows[i][c]]

\* pd.concat(frames, ignore_index=True): union of the columns, missing cells NULL
ConcatFrames(frames) ==
    LET allcols == UNION {frames[i].cols : i \in DOMAIN frames}
        widen(df) == [i \in DOMAIN df.rows |->
                        [c \in allcols |->
                            IF c \in df.cols THEN df.rows[i][c] ELSE NULL]]
    IN  [cols |-> allcols,
         rows |-> Flatten([i \in DOMAIN frames |-> widen(frames[i])])]

-----------------------------------------------------------------------------
(* SalesforceExporter._build_relationship_batches *)

\* a cell that holds the integer 7; every other cell is a string
IntSeven == "int(7)"

\* str(value)
Str(v) == IF v = IntSeven THEN "7" ELSE v

\* values_series = source_df[field].dropna()
DropNa(s) == SelectSeq(s, LAMBDA v : v # NULL)

\* [str(value) for value in values_series.tolist() if str(value)]
Stringify(s) == SelectSeq([i \in DOMAIN s |-> Str(s[i])], LAMBDA v : v # "")

\* list(dict.fromkeys(values))
RECURSIVE Unique(_)
Unique(s) ==
    IF s = <<>> THEN <<>>
    ELSE LET r == Unique(Front(s))
         IN  IF Last(s) \in Range(r) THEN r ELSE Append(r, Last(s))

\* range(0, n, size) for size > 0
ChunkStarts(n, size) == {start \in 0..(n - 1) : start % size = 0}

\* ChunkValues with the last, shorter chunk left out
ChunkValuesFullOnly(unique_values, chunk_size) ==
    LET n == Len(unique_values)
        count == n \div chunk_size
    IN  [k \in 1..count |->
            SubSeq(unique_values, (k - 1) * chunk_size + 1, k * chunk_size)]

\* the chunks unique_values[start : start + chunk_size], in order of start
ChunkValues(unique_values, chunk_size) ==
    LET n == Len(unique_values)
        count == Cardinality(ChunkStarts(n, chunk_size))
    IN  [k \in 1..count |->
            SubSeq(unique_values, (k - 1) * chunk_size + 1,
                   Min(k * chunk_size, n))]

\* _quote, for values without a backslash or a quote
Quote(value) == "'" \o value \o "'"

\* _build_in_condition: field IN ('v1', 'v2')
build_in_condition(field, values) ==
    <<field, " ", "IN", " ", "(">>
        \o Join(<<",", " ">>, [i \in DOMAIN values |-> <<Quote(values[i])>>])
        \o <<")">>

\* the unique stringified values of one filter's source field
UniqueValues(source_df, source_field) ==
    Unique(Stringify(DropNa(Column(source_df, source_field))))

\* FilterOutcome with the source field looked up before the empty check
FilterOutcomeColumnFirst(filter_config, cache) ==
    IF filter_config.source_query \notin DOMAIN cache
    THEN [kind |-> "error", err |-> "dependency", conditions |-> <<>>]
    ELSE LET source_df == cache[filter_config.source_query] IN
         IF filter_config.source_field \notin source_df.cols
         THEN [kind |-> "error", err |-> "missing_column", conditions |-> <<>>]
         ELSE IF IsEmpty(source_df)
         THEN [kind |-> "skip", err |-> "none", conditions |-> <<>>]
         ELSE LET unique_values ==
                      UniqueValues(source_df, filter_config.source_field)
              IN  IF unique_values = <<>>
                  THEN [kind |-> "skip", err |-> "none", conditions |-> <<>>]
                  ELSE [kind |-> "chunks", err |-> "none",
                        conditions |->
                            LET chunks == ChunkValues(unique_values,
                                                      filter_config.chunk_size)
                            IN  [k \in DOMAIN chunks |->
                                    build_in_condition(
                                        filter_config.target_field, chunks[k])]]

\* FilterOutcome with a source that is not cached taken for an empty one
FilterOutcomeMissingSkips(filter_config, cache) ==
    IF filter_config.source_query \notin DOMAIN cache
    THEN [kind |-> "skip", err |-> "none", conditions |-> <<>>]
    ELSE LET source_df == cache[filter_config.source_query] IN
         IF IsEmpty(source_df)
         THEN [kind |-> "skip", err |-> "none", conditions |-> <<>>]
         ELSE IF filter_config.source_field \notin source_df.cols
         THEN [kind |-> "error", err |-> "missing_column", conditions |-> <<>>]
         ELSE LET unique_values ==
                      UniqueValues(source_df, filter_config.source_field)
              IN  IF unique_values = <<>>
                  THEN [kind |-> "skip", err |-> "none", conditions |-> <<>>]
                  ELSE [kind |-> "chunks", err |-> "none",
                        conditions |->
                            LET chunks == ChunkValues(unique_values,
                                                      filter_config.chunk_size)
                            IN  [k \in DOMAIN chunks |->
                                    build_in_condition(
                                        filter_config.target_field, chunks[k])]]

\* the outcome of one filter: an error, a skip, or its chunk conditions
FilterOutcome(filter_config, cache) ==
    IF filter_config.source_query \notin DOMAIN cache
    THEN [kind |-> "error", err |-> "dependency", conditions |-> <<>>]
    ELSE LET source_df == cache[filter_config.source_query] IN
         IF IsEmpty(source_df)
         THEN [kind |-> "skip", err |-> "none", conditions |-> <<>>]
         ELSE IF filter_config.source_field \notin source_df.cols
         THEN [kind |-> "error", err |-> "missing_column", conditions |-> <<>>]
         ELSE LET unique_values ==
                      UniqueValues(source_df, filter_config.source_field)
              IN  IF unique_values = <<>>
                  THEN [kind |-> "skip", err |-> "none", conditions |-> <<>>]
                  ELSE [kind |-> "chunks", err |-> "none",
                        conditions |->
                            LET chunks == ChunkValues(unique_values,
                                                      filter_config.chunk_size)
                            IN  [k \in DOMAIN chunks |->
                                    build_in_condition(
                                        filter_config.target_field, chunks[k])]]

\* the loop over the filters: the first error or skip ends it
RECURSIVE FilterLoop(_, _, _)
FilterLoop(filters, cache, batches) ==
    IF filters = <<>>
    THEN [kind |-> "batches", err |-> "none", batches |-> batches]
    ELSE LET o == FilterOutcome(Head(filters), cache) IN
         IF o.kind = "error"
         THEN [kind |-> "error", err |-> o.err, batches |-> <<>>]
         ELSE IF o.kind = "skip"
         THEN [kind |-> "skip", err |-> "none", batches |-> <<>>]
         ELSE FilterLoop(Tail(filters), cache, Append(batches, o.conditions))

build_relationship_batches(query_config, cache) ==
    IF query_config.relationship_filters = <<>>
    THEN [kind |-> "none", err |-> "none", batches |-> <<>>]
    ELSE FilterLoop(query_config.relationship_filters, cache, <<>>)

\* Product replaced by zip(*batches): the lists walked side by side
ProductZipped(lists) ==
    IF lists = <<>> THEN << <<>> >>
    ELSE LET n == CHOOSE m \in {Len(lists[i]) : i \in DOMAIN lists} :
                      \A i \in DOMAIN lists : m <= Len(lists[i])
         IN  [j \in 1..n |-> [i \in DOMAIN lists |-> lists[i][j]]]

\* itertools.product(*batches): the first list varies slowest
RECURSIVE Product(_)
Product(lists) ==
    IF lists = <<>> THEN << <<>> >>
    ELSE LET rest == Product(Tail(lists))
             first == Head(lists)
         IN  Flatten([i \in DOMAIN first |->
                        [j \in DOMAIN rest |-> <<first[i]>> \o rest[j]]])

-----------------------------------------------------------------------------
(* SalesforceExporter._apply_joins: DataFrame.merge *)

\* key columns that carry the same name on both sides appear once
SharedKeys(join) ==
    {join.left_on[k] : k \in {k \in DOMAIN join.left_on :
                                 k \in DOMAIN join.right_on
                                 /\ join.left_on[k] = join.right_on[k]}}

\* suffixes = join.suffixes or ("", "_<source_query>")
Suffixes(join) ==
    IF join.suffixes # <<>> THEN join.suffixes
    ELSE <<"", "_" \o join.source_query>>

\* columns present on both sides that are not a shared key get a suffix
Overlap(left, right, join) == (left.cols \cap right.cols) \ SharedKeys(join)

LeftName(c, left, right, join) ==
    IF c \in Overlap(left, right, join) THEN c \o Suffixes(join)[1] ELSE c

RightName(c, left, right, join) ==
    IF c \in Overlap(left, right, join) THEN c \o Suffixes(join)[2] ELSE c

MergedColumns(left, right, join) ==
    {LeftName(c, left, right, join) : c \in left.cols}
        \cup {RightName(c, left, right, join) :
                c \in right.cols \ SharedKeys(join)}

\* merge raises: a key list is empty, the lists differ in length, or a key
\* column is absent
MergeRaises(left, right, join) ==
    \/ Len(join.left_on) # Len(join.right_on)
    \/ join.left_on = <<>>
    \/ ~(Range(join.left_on) \subseteq left.cols)
    \/ ~(Range(join.right_on) \subseteq right.cols)

\* two rows match when their key cells are equal, position by position
KeysMatch(l, r, join) ==
    \A k \in DOMAIN join.left_on : l[join.left_on[k]] = r[join.right_on[k]]

\* the output row of a pair; hasL / hasR tell which side is present
MergedRow(left, right, join, l, r, hasL, hasR) ==
    [c \in MergedColumns(left, right, join) |->
        IF c \in SharedKeys(join) THEN (IF hasL THEN l[c] ELSE r[c])
        ELSE IF \E lc \in left.cols : LeftName(lc, left, right, join) = c
        THEN (IF hasL
              THEN l[CHOOSE lc \in left.cols :
                        LeftName(lc, left, right, join) = c]
              ELSE NULL)
        ELSE (IF hasR
              THEN r[CHOOSE rc \in right.cols \ SharedKeys(join) :
                        RightName(rc, left, right, join) = c]
              ELSE NULL)]

\* rows of the left side in order, each with its matches in right order
LeftDriven(left, right, join, keepUnmatched) ==
    Flatten([i \in DOMAIN left.rows |->
        LET m == SelectSeq(right.rows,
                           LAMBDA r : KeysMatch(left.rows[i], r, join))
        IN  IF m = <<>>
            THEN (IF keepUnmatched
                  THEN <<MergedRow(left, right, join, left.rows[i], <<>>,
                                   TRUE, FALSE)>>
                  ELSE <<>>)
            ELSE [j \in DOMAIN m |->
                    MergedRow(left, right, join, left.rows[i], m[j],
                              TRUE, TRUE)]])

\* rows of the right side in order, each with its matches in left order
RightDriven(left, right, join) ==
    Flatten([j \in DOMAIN right.rows |->
        LET m == SelectSeq(left.rows,
                           LAMBDA l : KeysMatch(l, right.rows[j], join))
        IN  IF m = <<>>
            THEN <<MergedRow(left, right, join, <<>>, right.rows[j],
                             FALSE, TRUE)>>
            ELSE [i \in DOMAIN m |->
                    MergedRow(left, right, join, m[i], right.rows[j],
                              TRUE, TRUE)]])

\* the right rows no left row matches
RightOnly(left, right, join) ==
    LET u == SelectSeq(right.rows,
                       LAMBDA r : \A i \in DOMAIN left.rows :
                                     ~KeysMatch(left.rows[i], r, join))
    IN  [j \in DOMAIN u |->
            MergedRow(left, right, join, <<>>, u[j], FALSE, TRUE)]

\* result.merge(other_df, how, left_on, right_on, suffixes); the key order
\* that pandas gives the rows of an outer join is not modelled
Merge(left, right, join) ==
    [cols |-> MergedColumns(left, right, join),
     rows |-> CASE join.how = "inner" -> LeftDriven(left, right, join, FALSE)
                [] join.how = "left" -> LeftDriven(left, right, join, TRUE)
                [] join.how = "right" -> RightDriven(left, right, join)
                [] OTHER -> LeftDriven(left, right, join, TRUE)
                              \o RightOnly(left, right, join)]

\* the fold over the joins: the first missing source or failing merge ends it
RECURSIVE apply_joins(_, _, _)
apply_joins(df, joins, cache) ==
    IF joins = <<>> THEN [err |-> "none", df |-> df]
    ELSE LET join == Head(joins) IN
         IF join.source_query \notin DOMAIN cache
         THEN [err |-> "dependency", df |-> df]
         ELSE IF MergeRaises(df, cache[join.source_query], join)
         THEN [err |-> "merge", df |-> df]
         ELSE apply_joins(Merge(df, cache[join.source_query], join),
                          Tail(joins), cache)

-----------------------------------------------------------------------------
(* Custom transformations *)

ID == "Id"
RELRESERVE == "ps__Relreserve__c"
CONTACT == "ps__Relcontact__c"
ENTRY == "ps__EntryTime__c"
STATUS == "ps__ReservedStatus__c"
NO == "ps__No__c"
NUMBER_OF_USE == "number_of_use"

\* the status literal the code compares with (confirmed)
CONFIRMED == "kakutei"

RESERVATION_KEYS == <<"Reservations_history", "Reservations_onhand">>

\* frame[list(required_columns)]
Project(frame, columns) ==
    [cols |-> columns,
     rows |-> [i \in DOMAIN frame.rows |->
                 [c \in columns |-> frame.rows[i][c]]]]

\* ReservationFrames giving up on both sets as soon as one of them lacks a
\* required column
ReservationFramesAllOrNone(cache, required_columns) ==
    LET usable(key) == /\ key \in DOMAIN cache
                       /\ ~IsEmpty(cache[key])
        keys == SelectSeq(RESERVATION_KEYS, usable)
    IN  IF \A i \in DOMAIN keys : required_columns \subseteq cache[keys[i]].cols
        THEN [i \in DOMAIN keys |-> Project(cache[keys[i]], required_columns)]
        ELSE <<>>

\* the reservation frames a transformation uses: cached, non-empty and
\* holding every required column; in the order history, on-hand
ReservationFrames(cache, required_columns) ==
    LET usable(key) == /\ key \in DOMAIN cache
                       /\ ~IsEmpty(cache[key])
                       /\ required_columns \subseteq cache[key].cols
        keys == SelectSeq(RESERVATION_KEYS, usable)
    IN  [i \in DOMAIN keys |-> Project(cache[keys[i]], required_columns)]

\* df[column] = values
SetColumn(df, column, values) ==
    [cols |-> df.cols \cup {column},
     rows |-> [i \in DOMAIN df.rows |->
                 [c \in df.cols \cup {column} |->
                     IF c = column THEN values[i] ELSE df.rows[i][c]]]]

\* DropDuplicates with keep="last": the last row of every value stays
DropDuplicatesKeepLast(rows, column) ==
    SelectSeq([i \in DOMAIN rows |->
                 [row |-> rows[i],
                  first |-> \A k \in (i + 1)..Len(rows) :
                                rows[k][column] # rows[i][column]]],
              LAMBDA e : e.first)

\* drop_duplicates(subset=[column]): the first row of every value stays
DropDuplicates(rows, column) ==
    SelectSeq([i \in DOMAIN rows |->
                 [row |-> rows[i],
                  first |-> \A k \in 1..(i - 1) :
                                rows[k][column] # rows[i][column]]],
              LAMBDA e : e.first)

\* reservation_ids.map(reservations_lookup[column])
Lookup(lookup, id, column) ==
    IF \E k \in DOMAIN lookup : lookup[k].row[ID] = id
    THEN lookup[CHOOSE k \in DOMAIN lookup : lookup[k].row[ID] = id].row[column]
    ELSE NULL

add_reservation_details(df, cache) ==
    IF IsEmpty(df) \/ RELRESERVE \notin df.cols THEN df
    ELSE LET reservation_frames == ReservationFrames(cache, {ID, NO, ENTRY}) IN
         IF reservation_frames = <<>> THEN df
         ELSE LET reservations_lookup ==
                      DropDuplicates(ConcatFrames(reservation_frames).rows, ID)
                  mapped(column) ==
                      [i \in DOMAIN df.rows |->
                          Lookup(reservations_lookup,
                                 df.rows[i][RELRESERVE], column)]
              IN  SetColumn(SetColumn(df, NO, mapped(NO)),
                            ENTRY, mapped(ENTRY))

\* pd.NaT: the result of errors="coerce" for a null or unparsable cell
NaT == -1

\* pd.to_datetime(cell, errors="coerce"), in half hours since midnight
ParseTime(v) ==
    CASE v = "09:00" -> 18
      [] v = "10:00" -> 20
      [] v = "10:30" -> 21
      [] v = "11:00" -> 22
      [] v = "12:00" -> 24
      [] OTHER -> NaT

\* _normalize_datetime_series
normalize_datetime_series(series) ==
    [i \in DOMAIN series |-> ParseTime(series[i])]

\* the sequence with x inserted before the first element greater than x
RECURSIVE InsertSorted(_, _)
InsertSorted(x, s) ==
    IF s = <<>> THEN <<x>>
    ELSE IF x < Head(s) THEN <<x>> \o s
    ELSE <<Head(s)>> \o InsertSorted(x, Tail(s))

\* sort_values: ascending
RECURSIVE SortTimes(_)
SortTimes(s) == IF s = <<>> THEN <<>> ELSE InsertSorted(Head(s), SortTimes(Tail(s)))

\* SearchSortedLeft with side="right": ties count as earlier
SearchSortedLeftTies(times, v) ==
    CHOOSE i \in 0..Len(times) :
        /\ \A k \in 1..i : times[k] <= v
        /\ \A k \in (i + 1)..Len(times) : times[k] > v

\* np.searchsorted(times, v, side="left") on an ascending array
SearchSortedLeft(times, v) ==
    CHOOSE i \in 0..Len(times) :
        /\ \A k \in 1..i : times[k] < v
        /\ \A k \in (i + 1)..Len(times) : times[k] >= v

\* np.searchsorted(times, v, side="right") on an ascending array
SearchSortedRight(times, v) ==
    CHOOSE i \in 0..Len(times) :
        /\ \A k \in 1..i : times[k] <= v
        /\ \A k \in (i + 1)..Len(times) : times[k] > v

\* the confirmed reservations with a subject and a parsable time, not later
\* than now: [contact, time]
RelevantReservations(reservation_frames, current) ==
    LET reservations == ConcatFrames(reservation_frames).rows
        kept == SelectSeq(reservations,
                          LAMBDA r : /\ r[CONTACT] # NULL
                                     /\ r[STATUS] = CONFIRMED
                                     /\ ParseTime(r[ENTRY]) # NaT
                                     /\ ParseTime(r[ENTRY]) <= current)
    IN  [i \in DOMAIN kept |->
            [contact |-> kept[i][CONTACT], time |-> ParseTime(kept[i][ENTRY])]]

\* times_by_contact[contact]: the ascending times of one contact
TimesByContact(relevant, contact) ==
    LET mine == SelectSeq(relevant, LAMBDA e : e.contact = contact)
    IN  SortTimes([i \in DOMAIN mine |-> mine[i].time])

\* the count of one row
UseCount(relevant, contact, entry_time, current) ==
    IF contact = NULL \/ entry_time = NaT THEN 0
    ELSE LET times == TimesByContact(relevant, contact) IN
         IF times = <<>> THEN 0
         ELSE IF entry_time <= current
         THEN SearchSortedLeft(times, entry_time)
         ELSE SearchSortedRight(times, current)

add_number_of_use(df, cache, current) ==
    IF IsEmpty(df) THEN df
    ELSE IF CONTACT \notin df.cols \/ ENTRY \notin df.cols THEN df
    ELSE LET reservation_frames ==
                 ReservationFrames(cache, {ID, CONTACT, ENTRY, STATUS})
             relevant == RelevantReservations(reservation_frames, current)
             entry_times == normalize_datetime_series(Column(df, ENTRY))
         IN  IF reservation_frames = <<>> \/ relevant = <<>>
             THEN SetColumn(df, NUMBER_OF_USE, [i \in DOMAIN df.rows |-> 0])
             ELSE SetColumn(df, NUMBER_OF_USE,
                            [i \in DOMAIN df.rows |->
                                UseCount(relevant, df.rows[i][CONTACT],
                                         entry_times[i], current)])

apply_custom_transformations(name, df, cache, current) ==
    LET df1 == IF name \in {"Sales_history_combined", "Sales_onhand_combined"}
               THEN add_reservation_details(df, cache) ELSE df
    IN  IF name \in {"Reservations_history_combined",
                     "Reservations_onhand_combined"}
        THEN add_number_of_use(df1, cache, current) ELSE df1

-----------------------------------------------------------------------------
(* The output sink: _write_output and upload_to_s3 *)

\* the external operation of one _write_output call that raises, if any:
\* df.to_csv, boto3.client, s3_client.upload_file, local_path.replace
SinkFailures == {"none", "to_csv", "client", "upload_file", "replace"}

\* upload_to_s3 catches what upload_file raises and returns False
upload_to_s3(fail) == fail # "upload_file"

\* write_output_raises with upload_file's exception let out as well
write_output_raises_upload(fail, archive) ==
    \/ fail \in {"to_csv", "client", "upload_file"}
    \/ fail = "replace" /\ archive

\* _write_output lets the exception out
write_output_raises(fail, archive) ==
    \/ fail \in {"to_csv", "client"}
    \/ fail = "replace" /\ upload_to_s3(fail) /\ archive

\* the failure as the run sees it: replace is only called after an upload
\* that succeeded into a configured archive directory
SinkOutcome(fail, archive) ==
    IF fail = "replace" /\ ~archive THEN "none" ELSE fail

\* output_name = output_file or name
OutputName(name, output_file) == IF output_file # "" THEN output_file ELSE name

-----------------------------------------------------------------------------
(* The data source: sf.query_all *)

\* a row satisfies field IN (...) when its stringified cell is quoted in it
RowMatches(row, cond) ==
    /\ cond[1] \in DOMAIN row
    /\ row[cond[1]] # NULL
    /\ Quote(Str(row[cond[1]])) \in Range(cond)

\* the records Salesforce returns for the query name under the conditions,
\* as pd.DataFrame(records); pd.DataFrame() when there are none
SalesforceQuery(name, conds) ==
    LET rows == SelectSeq(db[name].rows,
                          LAMBDA row : \A k \in DOMAIN conds :
                                          RowMatches(row, conds[k]))
    IN  IF rows = <<>> THEN EmptyFrame
        ELSE [cols |-> db[name].cols, rows |-> rows]

-----------------------------------------------------------------------------
(* SalesforceExporter.run *)

\* results_cache[name] = df
Store(cache, name, df) ==
    [n \in DOMAIN cache \cup {name} |-> IF n = name THEN df ELSE cache[n]]

\* InPlaceEffects with df = base_df: without joins the transformations
\* assign into the cached base frame
InPlaceEffectsNoCopy(cache, combined_config, df) ==
    IF combined_config.joins = <<>>
    THEN [cache EXCEPT ![combined_config.base_query] = df]
    ELSE cache

\* df = base_df.copy(): what the transformations assign goes to the copy,
\* the cached frames stay as they are
InPlaceEffects(cache, combined_config, df) == cache

\* the position after item idx of the current loop
NextPc == IF pc \in {"query", "batch"}
          THEN (IF idx < Len(queries) THEN "query"
                ELSE IF combined_outputs # <<>> THEN "combined" ELSE "done")
          ELSE (IF idx < Len(combined_outputs) THEN "combined" ELSE "done")

NextIdx == IF pc \in {"query", "batch"}
           THEN (IF idx < Len(queries) THEN idx + 1 ELSE 1)
           ELSE (IF idx < Len(combined_outputs) THEN idx + 1 ELSE idx)

Config == <<queries, combined_outputs, archive_directory, db>>
Harness == <<arg, ret>>

\* an exception leaves run()
Raise(e) ==
    /\ pc' = "aborted"
    /\ err' = e

\* _build_relationship_batches raises
ExportQueryRaises ==
    /\ pc = "query"
    /\ LET b == build_relationship_batches(queries[idx], results_cache) IN
        /\ b.kind = "error"
        /\ Raise(b.err)
    /\ UNCHANGED <<Config, Harness, now, idx, results_cache,
                   batches_to_process, dataframes, sent, written, lastSink,
                   uploaded>>

\* ExportQuerySkips with the empty result left out of the cache
ExportQuerySkipsNoStore ==
    /\ pc = "query"
    /\ build_relationship_batches(queries[idx], results_cache).kind = "skip"
    /\ pc' = NextPc
    /\ idx' = NextIdx
    /\ UNCHANGED <<Config, Harness, now, results_cache, batches_to_process,
                   dataframes, sent, written, lastSink, uploaded, err>>

\* _export_query returns pd.DataFrame() without a call; run caches it
ExportQuerySkips ==
    /\ pc = "query"
    /\ build_relationship_batches(queries[idx], results_cache).kind = "skip"
    /\ results_cache' = Store(results_cache, queries[idx].name, EmptyFrame)
    /\ pc' = NextPc
    /\ idx' = NextIdx
    /\ UNCHANGED <<Config, Harness, now, batches_to_process, dataframes, sent,
                   written, lastSink, uploaded, err>>

\* _export_query sets up the batches to process
ExportQueryStarts ==
    /\ pc = "query"
    /\ LET b == build_relationship_batches(queries[idx], results_cache) IN
        /\ b.kind \in {"none", "batches"}
        /\ batches_to_process' = IF b.kind = "none" THEN << <<>> >>
                                 ELSE Product(b.batches)
    /\ dataframes' = <<>>
    /\ pc' = "batch"
    /\ UNCHANGED <<Config, Harness, now, idx, results_cache, sent, written,
                   lastSink, uploaded, err>>

\* RunSingleQuery with the rows of the batch put before those of the
\* earlier batches
RunSingleQueryPrepends ==
    /\ pc = "batch"
    /\ batches_to_process # <<>>
    /\ LET q == queries[idx]
           conds == Head(batches_to_process)
           df == SalesforceQuery(q.name, conds)
       IN  /\ sent' = Append(sent, [name |-> q.name,
                                    text |-> build_query(q.soql, q.where, conds)])
           /\ dataframes' = IF IsEmpty(df) THEN dataframes
                            ELSE <<df>> \o dataframes
    /\ batches_to_process' = Tail(batches_to_process)
    /\ UNCHANGED <<Config, Harness, now, pc, idx, results_cache, written,
                   lastSink, uploaded, err>>

\* _run_single_query: one batch, the data source answers
RunSingleQuery ==
    /\ pc = "batch"
    /\ batches_to_process # <<>>
    /\ LET q == queries[idx]
           conds == Head(batches_to_process)
           df == SalesforceQuery(q.name, conds)
       IN  /\ sent' = Append(sent, [name |-> q.name,
                                    text |-> build_query(q.soql, q.where, conds)])
           /\ dataframes' = IF IsEmpty(df) THEN dataframes
                            ELSE Append(dataframes, df)
    /\ batches_to_process' = Tail(batches_to_process)
    /\ UNCHANGED <<Config, Harness, now, pc, idx, results_cache, written,
                   lastSink, uploaded, err>>

\* RunSingleQueryRaises with the exception caught and the batch left out
RunSingleQueryRaisesContinues ==
    /\ pc = "batch"
    /\ batches_to_process # <<>>
    /\ LET q == queries[idx] IN
        sent' = Append(sent, [name |-> q.name,
                              text |-> build_query(q.soql, q.where,
                                                   Head(batches_to_process))])
    /\ err' = "datasource"
    /\ batches_to_process' = Tail(batches_to_process)
    /\ UNCHANGED <<Config, Harness, now, pc, idx, results_cache, dataframes,
                   written, lastSink, uploaded>>

\* _run_single_query: one batch, sf.query_all raises
RunSingleQueryRaises ==
    /\ pc = "batch"
    /\ batches_to_process # <<>>
    /\ LET q == queries[idx] IN
        sent' = Append(sent, [name |-> q.name,
                              text |-> build_query(q.soql, q.where,
                                                   Head(batches_to_process))])
    /\ Raise("datasource")
    /\ UNCHANGED <<Config, Harness, now, idx, results_cache,
                   batches_to_process, dataframes, written, lastSink, uploaded>>

\* ExportQueryNoData with the empty result written when write_output is set
ExportQueryNoDataWrites ==
    /\ pc = "batch"
    /\ batches_to_process = <<>>
    /\ dataframes = <<>>
    /\ written' = IF queries[idx].write_output
                  THEN Append(written,
                              [name |-> queries[idx].name,
                               file |-> OutputName(queries[idx].name,
                                                   queries[idx].output_file),
                               df |-> EmptyFrame])
                  ELSE written
    /\ results_cache' = Store(results_cache, queries[idx].name, EmptyFrame)
    /\ pc' = NextPc
    /\ idx' = NextIdx
    /\ UNCHANGED <<Config, Harness, now, batches_to_process, dataframes, sent,
                   lastSink, uploaded, err>>

\* every batch was empty: pd.DataFrame() is returned and cached
ExportQueryNoData ==
    /\ pc = "batch"
    /\ batches_to_process = <<>>
    /\ dataframes = <<>>
    /\ results_cache' = Store(results_cache, queries[idx].name, EmptyFrame)
    /\ pc' = NextPc
    /\ idx' = NextIdx
    /\ UNCHANGED <<Config, Harness, now, batches_to_process, dataframes, sent,
                   written, lastSink, uploaded, err>>

\* the batches are concatenated and cached, write_output is false
ExportQueryKeeps ==
    /\ pc = "batch"
    /\ batches_to_process = <<>>
    /\ dataframes # <<>>
    /\ ~queries[idx].write_output
    /\ results_cache' = Store(results_cache, queries[idx].name,
                              ConcatFrames(dataframes))
    /\ pc' = NextPc
    /\ idx' = NextIdx
    /\ dataframes' = <<>>
    /\ UNCHANGED <<Config, Harness, now, batches_to_process, sent, written,
                   lastSink, uploaded, err>>

\* the batches are concatenated, written and cached
ExportQueryWrites ==
    /\ pc = "batch"
    /\ batches_to_process = <<>>
    /\ dataframes # <<>>
    /\ queries[idx].write_output
    /\ \E fail \in SinkFailures :
        LET q == queries[idx]
            combined == ConcatFrames(dataframes)
        IN  /\ written' = Append(written,
                                 [name |-> q.name,
                                  file |-> OutputName(q.name, q.output_file),
                                  df |-> combined])
            /\ lastSink' = SinkOutcome(fail, archive_directory)
            /\ uploaded' = (fail \notin {"to_csv", "client"}
                            /\ upload_to_s3(fail))
            /\ IF write_output_raises(fail, archive_directory)
               THEN /\ Raise("sink")
                    /\ UNCHANGED <<idx, results_cache>>
               ELSE /\ results_cache' = Store(results_cache, q.name, combined)
                    /\ pc' = NextPc
                    /\ idx' = NextIdx
                    /\ UNCHANGED err
    /\ dataframes' = <<>>
    /\ UNCHANGED <<Config, Harness, now, batches_to_process, sent>>

\* the instants datetime.now can give, in half hours since midnight
Nows == {19, 21, 25}

\* the transformations of this output read the clock
ReadsClock(combined_config, df) ==
    /\ combined_config.name \in {"Reservations_history_combined",
                                 "Reservations_onhand_combined"}
    /\ ~IsEmpty(df)
    /\ CONTACT \in df.cols
    /\ ENTRY \in df.cols
    /\ ReservationFrames(results_cache, {ID, CONTACT, ENTRY, STATUS}) # <<>>

\* base_df.copy() followed by _apply_joins
Joined(combined_config, cache) ==
    IF combined_config.joins # <<>>
    THEN apply_joins(cache[combined_config.base_query],
                     combined_config.joins, cache)
    ELSE [err |-> "none", df |-> cache[combined_config.base_query]]

\* _build_combined_output raises before anything is written
BuildCombinedRaises ==
    /\ pc = "combined"
    /\ LET cc == combined_outputs[idx] IN
        IF cc.base_query \notin DOMAIN results_cache
        THEN Raise("dependency")
        ELSE /\ Joined(cc, results_cache).err # "none"
             /\ Raise(Joined(cc, results_cache).err)
    /\ UNCHANGED <<Config, Harness, now, idx, results_cache,
                   batches_to_process, dataframes, sent, written, lastSink,
                   uploaded>>

\* _build_combined_output joins, transforms and writes; run caches the result
BuildCombinedOutput ==
    /\ pc = "combined"
    /\ LET cc == combined_outputs[idx] IN
        /\ cc.base_query \in DOMAIN results_cache
        /\ Joined(cc, results_cache).err = "none"
        /\ \E current \in Nows, fail \in SinkFailures :
            LET joined == Joined(cc, results_cache).df
                df == IF ~IsEmpty(joined)
                      THEN apply_custom_transformations(cc.name, joined,
                                                        results_cache, current)
                      ELSE joined
                cache == InPlaceEffects(results_cache, cc, df)
            IN  /\ now' = IF ReadsClock(cc, joined) THEN current ELSE now
                /\ written' = Append(written,
                                     [name |-> cc.name,
                                      file |-> OutputName(cc.name,
                                                          cc.output_file),
                                      df |-> df])
                /\ lastSink' = SinkOutcome(fail, archive_directory)
                /\ uploaded' = (fail \notin {"to_csv", "client"}
                                /\ upload_to_s3(fail))
                /\ IF write_output_raises(fail, archive_directory)
                   THEN /\ Raise("sink")
                        /\ results_cache' = cache
                        /\ UNCHANGED idx
                   ELSE /\ results_cache' = Store(cache, cc.name, df)
                        /\ pc' = NextPc
                        /\ idx' = NextIdx
                        /\ UNCHANGED err
    /\ UNCHANGED <<Config, Harness, batches_to_process, dataframes, sent>>

-----------------------------------------------------------------------------
(* Configurations and Salesforce contents the run is checked on *)

MaxFilters == 2

Filter(source_query, source_field, target_field, chunk_size) ==
    [source_query |-> source_query, source_field |-> source_field,
     target_field |-> target_field, chunk_size |-> chunk_size]

\* Reservations_onhand is declared after the query that carries the filters,
\* so it is not cached yet; Nope is a field no result has
Filters ==
    {Filter("Reservations_history", ID, RELRESERVE, 1),
     Filter("Reservations_history", CONTACT, CONTACT, 1),
     Filter("Reservations_history", "Nope", RELRESERVE, 1),
     Filter("Reservations_onhand", ID, RELRESERVE, 1)}

FilterLists == UNION {[1..n -> Filters] : n \in 0..MaxFilters}

Query(name, soql, where, filters, write_output) ==
    [name |-> name, soql |-> soql, where |-> where, output_file |-> "",
     relationship_filters |-> filters, write_output |-> write_output]

QueryLists ==
    {<<Query("Reservations_history", <<"SELECT", " ", "Reservation">>, <<>>,
             <<>>, w1),
       Query("Sales_history", <<"SELECT", " ", "Sales", "\n">>, <<"Live">>,
             fs, w2),
       Query("Reservations_onhand",
             <<"SELECT", " ", "Reservation", " ", "WHERE", " ", "Open">>,
             <<>>, <<>>, TRUE)>> :
        w1 \in BOOLEAN, w2 \in BOOLEAN, fs \in FilterLists}

JoinSpec(source_query, left_on, right_on, how) ==
    [source_query |-> source_query, left_on |-> left_on,
     right_on |-> right_on, how |-> how, suffixes |-> <<>>]

Combined(name, base_query, joins) ==
    [name |-> name, base_query |-> base_query, joins |-> joins,
     output_file |-> "out"]

\* Contacts is a name no query or combined output carries
CombinedLists ==
    {<<Combined("Sales_history_combined", "Sales_history", <<>>),
       Combined("Reservations_history_combined", "Reservations_history",
                <<>>)>>,
     <<Combined("Reservations_history_combined", "Reservations_history",
                <<JoinSpec("Sales_history", <<ID>>, <<RELRESERVE>>, "left")>>),
       Combined("Sales_history_combined", "Sales_history",
                <<JoinSpec("Reservations_history", <<RELRESERVE>>, <<ID>>,
                           "inner")>>)>>,
     <<Combined("Reservations_onhand_combined", "Reservations_onhand", <<>>),
       Combined("Chained", "Reservations_onhand_combined", <<>>)>>,
     <<Combined("Orphan", "Contacts", <<>>),
       Combined("Sales_history_combined", "Sales_history", <<>>)>>,
     <<Combined("Sales_onhand_combined", "Reservations_history",
                <<JoinSpec("Reservations_onhand", <<ID>>, <<ID>>, "outer"),
                  JoinSpec("Contacts", <<CONTACT>>, <<ID>>, "left")>>),
       Combined("Reservations_history_combined", "Reservations_history",
                <<>>)>>}

Reservation(id, contact, entry, status, no) ==
    [c \in {ID, CONTACT, ENTRY, STATUS, NO} |->
        CASE c = ID -> id
          [] c = CONTACT -> contact
          [] c = ENTRY -> entry
          [] c = STATUS -> status
          [] OTHER -> no]

Sale(id, reserve, contact) ==
    [c \in {ID, RELRESERVE, CONTACT} |->
        CASE c = ID -> id
          [] c = RELRESERVE -> reserve
          [] OTHER -> contact]

ReservationCols == {ID, CONTACT, ENTRY, STATUS, NO}
SaleCols == {ID, RELRESERVE, CONTACT}

Databases ==
    {[n \in {"Reservations_history", "Sales_history", "Reservations_onhand"} |->
        CASE n = "Reservations_history" -> rh
          [] n = "Sales_history" -> sh
          [] OTHER -> ro] :
        rh \in {[cols |-> ReservationCols, rows |-> <<>>],
                [cols |-> ReservationCols,
                 rows |-> <<Reservation("R1", NULL, "10:00", CONFIRMED, "N1")>>],
                [cols |-> ReservationCols,
                 rows |-> <<Reservation("R1", "C1", "09:00", CONFIRMED, "N1"),
                            Reservation("R2", "C1", "10:00", CONFIRMED, "N2"),
                            Reservation("R3", "C2", "bad", "cancelled", "N3")>>]},
        sh \in {[cols |-> SaleCols, rows |-> <<>>],
                [cols |-> SaleCols,
                 rows |-> <<Sale("S1", "R1", "C1"),
                            Sale("S2", "R1", "C2"),
                            Sale("S3", "R9", NULL)>>]},
        ro \in {[cols |-> ReservationCols, rows |-> <<>>],
                [cols |-> ReservationCols,
                 rows |-> <<Reservation("R1", "C1", "11:00", CONFIRMED, "N9"),
                            Reservation("R4", "C1", "12:00", CONFIRMED,
                                        "N4")>>]}}

-----------------------------------------------------------------------------
(* The run *)

Init ==
    /\ queries \in QueryLists
    /\ combined_outputs \in CombinedLists
    /\ archive_directory = TRUE
    /\ db \in Databases
    /\ now = 0
    /\ pc = "query"
    /\ idx = 1
    /\ results_cache = <<>>
    /\ batches_to_process = <<>>
    /\ dataframes = <<>>
    /\ sent = <<>>
    /\ written = <<>>
    /\ lastSink = "none"
    /\ uploaded = FALSE
    /\ err = "none"
    /\ arg = <<>>
    /\ ret = <<>>

Next ==
    \/ ExportQueryRaises
    \/ ExportQuerySkips
    \/ ExportQueryStarts
    \/ RunSingleQuery
    \/ RunSingleQueryRaises
    \/ ExportQueryNoData
    \/ ExportQueryKeeps
    \/ ExportQueryWrites
    \/ BuildCombinedRaises
    \/ BuildCombinedOutput

Spec == Init /\ [][Next]_vars

-----------------------------------------------------------------------------
(* Properties of the run *)

QueryNames(n) == {queries[j].name : j \in 1..n}
CombinedNames(n) == {combined_outputs[j].name : j \in 1..n}
SentFor(name) == SelectSeq(sent, LAMBDA e : e.name = name)
WrittenFor(name) == SelectSeq(written, LAMBDA e : e.name = name)

\* the cells of a cached source field, stringified, null and blank left out
NonBlankValues(filter_config, cache) ==
    {Str(v) : v \in {cache[filter_config.source_query].rows[i]
                         [filter_config.source_field] :
                       i \in DOMAIN cache[filter_config.source_query].rows}
                    \ {NULL}} \ {""}

\* the filter's source is cached, has rows, holds the field and a value
YieldsChunks(filter_config, cache) ==
    /\ filter_config.source_query \in DOMAIN cache
    /\ cache[filter_config.source_query].rows # <<>>
    /\ filter_config.source_field \in cache[filter_config.source_query].cols
    /\ NonBlankValues(filter_config, cache) # {}

\* the filter's source is cached and has no row, or only null / blank cells
\* in the source field
SourceIsEmpty(filter_config, cache) ==
    /\ filter_config.source_query \in DOMAIN cache
    /\ \/ cache[filter_config.source_query].rows = <<>>
       \/ /\ filter_config.source_field
                \in cache[filter_config.source_query].cols
          /\ NonBlankValues(filter_config, cache) = {}

\* run() has stopped: no step leaves a state in which an exception left it
Stopped == [][pc # "aborted"]_vars

\* C1: when query or combined output number idx starts, and while its batches
\* run, the cache holds exactly the names of the items declared before it:
\* every plain query stored its result, empty or not, before the next one,
\* and the combined outputs come after all the queries.
C1_CacheHoldsEarlierItems ==
    /\ pc \in {"query", "batch"} =>
          DOMAIN results_cache = QueryNames(idx - 1)
    /\ pc = "combined" =>
          DOMAIN results_cache
              = QueryNames(Len(queries)) \cup CombinedNames(idx - 1)
    /\ pc = "done" =>
          DOMAIN results_cache
              = QueryNames(Len(queries))
                  \cup CombinedNames(Len(combined_outputs))

\* the second combined output starts after a query that was skipped
C1_Witness ==
    /\ pc = "combined"
    /\ idx = 2
    /\ queries[2].relationship_filters # <<>>
    /\ IsEmpty(results_cache["Sales_history"])
    /\ SentFor("Sales_history") = <<>>

\* some filter of the query about to start names a source that is not cached
SomeFilterSourceMissing ==
    /\ pc = "query"
    /\ \E k \in DOMAIN queries[idx].relationship_filters :
          queries[idx].relationship_filters[k].source_query
              \notin DOMAIN results_cache

\* the combined output about to start names a base or a join source that is
\* not cached
SomeCombinedSourceMissing ==
    /\ pc = "combined"
    /\ \/ combined_outputs[idx].base_query \notin DOMAIN results_cache
       \/ \E k \in DOMAIN combined_outputs[idx].joins :
             combined_outputs[idx].joins[k].source_query
                 \notin DOMAIN results_cache

\* the step is an abort with a dependency error that sends and writes nothing
DependencyAbort ==
    /\ pc' = "aborted"
    /\ err' = "dependency"
    /\ sent' = sent
    /\ written' = written
    /\ results_cache' = results_cache

\* C2 as stated: a missing dependency name of any filter, base or join
\* aborts the run with a dependency error, whatever comes before it.
C2_Original ==
    [][(SomeFilterSourceMissing \/ SomeCombinedSourceMissing)
          => DependencyAbort]_vars

\* the first filter that does not yield chunk conditions is one whose source
\* is not cached
MissingFilterReached ==
    /\ pc = "query"
    /\ \E k \in DOMAIN queries[idx].relationship_filters :
          /\ queries[idx].relationship_filters[k].source_query
                 \notin DOMAIN results_cache
          /\ \A j \in 1..(k - 1) :
                 YieldsChunks(queries[idx].relationship_filters[j],
                              results_cache)

\* the base is missing, or the first join that fails is one whose source is
\* not cached
MissingJoinReached ==
    /\ pc = "combined"
    /\ LET cc == combined_outputs[idx] IN
        \/ cc.base_query \notin DOMAIN results_cache
        \/ \E k \in DOMAIN cc.joins :
              /\ cc.joins[k].source_query \notin DOMAIN results_cache
              /\ apply_joins(results_cache[cc.base_query],
                             SubSeq(cc.joins, 1, k - 1),
                             results_cache).err = "none"

\* C2 amended: a dependency name that is not cached when it is reached (the
\* base of a combined output; the source of a join whose earlier joins merged;
\* the source of a filter whose earlier filters all yield chunk conditions)
\* aborts the run with a dependency error: nothing is sent, written or cached,
\* and no step follows.
C2_MissingDependencyAborts ==
    /\ [][(MissingFilterReached \/ MissingJoinReached) => DependencyAbort]_vars
    /\ Stopped

\* the run stopped on the second filter of the second query, the first filter
\* having yielded chunk conditions
C2_Witness ==
    /\ pc = "aborted"
    /\ err = "dependency"
    /\ idx = 2
    /\ Len(queries[2].relationship_filters) = 2
    /\ YieldsChunks(queries[2].relationship_filters[1], results_cache)
    /\ queries[2].relationship_filters[2].source_query
           \notin DOMAIN results_cache
    /\ SentFor("Sales_history") = <<>>

\* the step skips the query: nothing sent, an empty result cached, no error,
\* the run goes on
SkipStep ==
    /\ pc' \notin {"aborted", "batch"}
    /\ err' = "none"
    /\ sent' = sent
    /\ written' = written
    /\ queries[idx].name \in DOMAIN results_cache'
    /\ IsEmpty(results_cache'[queries[idx].name])

\* C3 as stated: an empty or all-blank source of any filter makes the query
\* be skipped without error.
C3_Original ==
    [][(pc = "query"
          /\ \E k \in DOMAIN queries[idx].relationship_filters :
                SourceIsEmpty(queries[idx].relationship_filters[k],
                              results_cache))
          => SkipStep]_vars

\* the first filter that does not yield chunk conditions is one whose source
\* is empty or all blank
EmptyFilterReached ==
    /\ pc = "query"
    /\ \E k \in DOMAIN queries[idx].relationship_filters :
          /\ SourceIsEmpty(queries[idx].relationship_filters[k], results_cache)
          /\ \A j \in 1..(k - 1) :
                 YieldsChunks(queries[idx].relationship_filters[j],
                              results_cache)

\* C3 amended: when the source of a filter is empty or all blank and every
\* filter listed before it yields chunk conditions, the data source is not
\* called for the query, no error is raised, the cached result is empty and
\* the run continues.
C3_EmptySourceSkips ==
    [][EmptyFilterReached => SkipStep]_vars

\* the second query was skipped on its second filter, whose source field
\* holds only nulls, and the run went on to the third query
C3_Witness ==
    /\ pc = "batch"
    /\ idx = 3
    /\ Len(queries[2].relationship_filters) = 2
    /\ YieldsChunks(queries[2].relationship_filters[1], results_cache)
    /\ SourceIsEmpty(queries[2].relationship_filters[2], results_cache)
    /\ results_cache["Reservations_history"].rows # <<>>
    /\ IsEmpty(results_cache["Sales_history"])
    /\ SentFor("Sales_history") = <<>>

\* the cache as query number k found it
CacheBefore(k) == [n \in QueryNames(k - 1) |-> results_cache[n]]

\* ceil(N / C) for the N distinct non-blank values of the filter's source
ChunkCount(filter_config, cache) ==
    (Cardinality(NonBlankValues(filter_config, cache))
        + filter_config.chunk_size - 1) \div filter_config.chunk_size

RECURSIVE Prod(_)
Prod(ns) == IF ns = <<>> THEN 1 ELSE Head(ns) * Prod(Tail(ns))

\* the text of a query: the template, then WHERE (AND when the template has
\* one), then the static filter and the conditions joined by AND
ExpectedText(q, conds) ==
    LET all == (IF q.where # <<>> THEN <<q.where>> ELSE <<>>) \o conds
        glue == IF "WHERE" \in Range(q.soql) THEN "AND" ELSE "WHERE"
    IN  Strip(q.soql)
            \o (IF all = <<>> THEN <<>>
                ELSE <<" ", glue, " ">> \o Join(<<" ", "AND", " ">>, all))

\* the largest chunk count among the filters fs of query number k
MaxChunks(fs, k) ==
    CHOOSE m \in {ChunkCount(fs[f], CacheBefore(k)) : f \in DOMAIN fs} :
        \A f \in DOMAIN fs : ChunkCount(fs[f], CacheBefore(k)) <= m

\* C4: a finished query without relationship filters was executed once, with
\* no extra condition; a finished query whose F filters all yield chunks
\* (c1..cF of them) was executed c1*...*cF times, each text carrying one chunk
\* condition of every filter, AND-ed in filter order, no combination twice.
C4_OneCallPerCombination ==
    \A k \in DOMAIN queries :
        (queries[k].name \in DOMAIN results_cache) =>
            LET q == queries[k]
                fs == q.relationship_filters
                texts == [i \in DOMAIN SentFor(q.name) |->
                             SentFor(q.name)[i].text]
                conditions(f) == FilterOutcome(fs[f], CacheBefore(k)).conditions
            IN  /\ fs = <<>> =>
                      texts = <<ExpectedText(q, <<>>)>>
                /\ (fs # <<>> /\ \A f \in DOMAIN fs :
                                    YieldsChunks(fs[f], CacheBefore(k))) =>
                      /\ Len(texts)
                            = Prod([f \in DOMAIN fs |->
                                       ChunkCount(fs[f], CacheBefore(k))])
                      /\ Cardinality(Range(texts)) = Len(texts)
                      /\ Range(texts)
                            = {ExpectedText(q, [f \in DOMAIN fs |->
                                                  conditions(f)[pick[f]]]) :
                                 pick \in {p \in [DOMAIN fs ->
                                                     1..MaxChunks(fs, k)] :
                                             \A f \in DOMAIN fs :
                                                p[f] \in DOMAIN conditions(f)}}

\* two filters with 2 and 3 chunks: the query finished after six calls
C4_Witness ==
    /\ "Sales_history" \in DOMAIN results_cache
    /\ Len(queries[2].relationship_filters) = 2
    /\ ChunkCount(queries[2].relationship_filters[1], CacheBefore(2)) = 2
    /\ ChunkCount(queries[2].relationship_filters[2], CacheBefore(2)) = 3
    /\ Len(SentFor("Sales_history")) = 6

\* C7 as stated: after a failed call of the output sink the run is aborted.
C7_Original == lastSink # "none" => pc = "aborted"

\* C7 amended: a failure of the sink while it writes the CSV file, creates
\* the S3 client or moves the file to the archive aborts the run, the item is
\* not cached and no step follows; a failure of the upload itself is caught:
\* the upload reports False, the item is cached and the run continues.
C7_SinkFailure ==
    /\ [](lastSink \in {"to_csv", "client", "replace"} =>
            /\ pc = "aborted"
            /\ err = "sink"
            /\ Last(written).name \notin DOMAIN results_cache)
    /\ [][(written' # written /\ lastSink' = "upload_file") =>
            /\ pc' # "aborted"
            /\ err' = "none"
            /\ ~uploaded'
            /\ Last(written').name \in DOMAIN results_cache'
            /\ results_cache'[Last(written').name] = Last(written').df]_vars
    /\ Stopped

\* the second call of the sink failed before the upload and the run stopped
C7_Witness ==
    /\ pc = "aborted"
    /\ err = "sink"
    /\ lastSink = "client"
    /\ Len(written) = 2

\* C8: when the data source fails on a batch the run stops there: the text
\* was sent once, the query's name is not cached, nothing of the query was
\* written, and no step follows.
C8_DataSourceFailureAborts ==
    /\ [](err = "datasource" =>
            /\ pc = "aborted"
            /\ sent # <<>>
            /\ Last(sent).name = queries[idx].name
            /\ Cardinality({i \in DOMAIN sent : sent[i] = Last(sent)}) = 1
            /\ queries[idx].name \notin DOMAIN results_cache
            /\ WrittenFor(queries[idx].name) = <<>>)
    /\ [][err # "datasource"]_vars

\* the data source failed after batches of the same query had returned rows
C8_Witness ==
    /\ err = "datasource"
    /\ dataframes # <<>>
    /\ Len(SentFor(queries[idx].name)) >= 3

SourcesCached(cc, cache) ==
    /\ cc.base_query \in DOMAIN cache
    /\ \A k \in DOMAIN cc.joins : cc.joins[k].source_query \in DOMAIN cache

\* the step writes the combined output once, with the joined and transformed
\* rows, and caches those rows unless the sink failed
WritesAndCaches(cc) ==
    /\ Len(written') = Len(written) + 1
    /\ Front(written') = written
    /\ Last(written').name = cc.name
    /\ \E current \in Nows :
          LET joined == Joined(cc, results_cache).df IN
          Last(written').df =
              IF IsEmpty(joined) THEN joined
              ELSE apply_custom_transformations(cc.name, joined,
                                                results_cache, current)
    /\ IF pc' = "aborted" THEN err' = "sink"
       ELSE /\ cc.name \in DOMAIN results_cache'
            /\ results_cache'[cc.name] = Last(written').df

\* C13: a combined output whose base query and join sources are all cached
\* is written by its step, once, with the rows obtained after the joins and
\* the transformations, and the same rows are cached under its name (a
\* failing sink aside); a combined output without rows is no exception.
C13_CombinedWritten ==
    /\ [][(pc = "combined"
           /\ SourcesCached(combined_outputs[idx], results_cache))
          => WritesAndCaches(combined_outputs[idx])]_vars
    /\ [](\A k \in DOMAIN combined_outputs :
             Len(WrittenFor(combined_outputs[k].name)) <= 1)

\* the same for the combined outputs whose joins do not raise
CombinedWrittenUnlessMergeRaises ==
    /\ [][(pc = "combined"
           /\ SourcesCached(combined_outputs[idx], results_cache)
           /\ Joined(combined_outputs[idx], results_cache).err = "none")
          => WritesAndCaches(combined_outputs[idx])]_vars
    /\ [](\A k \in DOMAIN combined_outputs :
             Len(WrittenFor(combined_outputs[k].name)) <= 1)

\* a combined output whose base query returned no rows and whose join source
\* is cached: the merge raised, nothing was written or cached for it
EmptyBaseJoinReached ==
    /\ pc = "aborted"
    /\ err = "merge"
    /\ SourcesCached(combined_outputs[idx], results_cache)
    /\ results_cache[combined_outputs[idx].base_query] = EmptyFrame
    /\ WrittenFor(combined_outputs[idx].name) = <<>>
    /\ combined_outputs[idx].name \notin DOMAIN results_cache

\* a combined output without joins and without rows was written and cached
EmptyCombinedReached ==
    /\ pc = "done"
    /\ \E k \in DOMAIN combined_outputs :
          /\ combined_outputs[k].joins = <<>>
          /\ results_cache[combined_outputs[k].name] = EmptyFrame
          /\ Len(WrittenFor(combined_outputs[k].name)) = 1

\* the chunk of filter f in batch number n of a query whose filters have the
\* chunk counts given: the first filter varies slowest
ChunkOfBatch(n, f, counts) ==
    (((n - 1) \div Prod(SubSeq(counts, f + 1, Len(counts)))) % counts[f]) + 1

\* the conditions of batch number n of query number k
BatchConditions(k, n) ==
    LET fs == queries[k].relationship_filters
        counts == [f \in DOMAIN fs |-> ChunkCount(fs[f], CacheBefore(k))]
    IN  [f \in DOMAIN fs |->
            FilterOutcome(fs[f], CacheBefore(k))
                .conditions[ChunkOfBatch(n, f, counts)]]

\* the rows the data source gives for the first n batches of query number k,
\* batch after batch
RowsOfBatches(k, n) ==
    Flatten([b \in 1..n |->
                SalesforceQuery(queries[k].name, BatchConditions(k, b)).rows])

\* C14: the texts sent for a query are, in order, those of the batches in the
\* enumeration order of the product, the first filter's chunk varying
\* slowest, one batch per step; the result cached for a finished query is the
\* rows of its batches put end to end in that order; and when no batch gave
\* a row the query finishes without error, nothing is written, the empty
\* result is cached and the run goes on.
C14_BatchOrder ==
    /\ [](\A k \in DOMAIN queries :
            LET q == queries[k]
                n == Len(SentFor(q.name))
            IN  n > 0 =>
                  /\ \A b \in 1..n :
                        SentFor(q.name)[b].text
                            = ExpectedText(q, BatchConditions(k, b))
                  /\ q.name \in DOMAIN results_cache =>
                        /\ results_cache[q.name].rows = RowsOfBatches(k, n)
                        /\ RowsOfBatches(k, n) = <<>> =>
                              results_cache[q.name] = EmptyFrame)
    /\ [][Len(sent') <= Len(sent) + 1]_vars
    /\ [][(pc = "batch" /\ batches_to_process = <<>> /\ dataframes = <<>>) =>
            /\ pc' # "aborted"
            /\ err' = "none"
            /\ written' = written
            /\ results_cache' = Store(results_cache, queries[idx].name,
                                      EmptyFrame)
            /\ (pc' = "query" => idx' = idx + 1)]_vars

\* six batches of two filters were sent, two of them gave a row each, and
\* the cached result holds the two rows in the order of the batches
C14_Witness ==
    /\ "Sales_history" \in DOMAIN results_cache
    /\ Len(queries[2].relationship_filters) = 2
    /\ Len(SentFor("Sales_history")) = 6
    /\ SentFor("Sales_history")[1].text # SentFor("Sales_history")[2].text
    /\ Len(results_cache["Sales_history"].rows) = 2
    /\ SalesforceQuery("Sales_history", BatchConditions(2, 1)).rows
          = <<results_cache["Sales_history"].rows[1]>>
    /\ \E b \in 2..6 :
          SalesforceQuery("Sales_history", BatchConditions(2, b)).rows
              = <<results_cache["Sales_history"].rows[2]>>

\* every batch of a filtered query came back without rows and the run went on
AllBatchesEmptyReached ==
    /\ pc = "done"
    /\ Len(SentFor("Sales_history")) >= 2
    /\ results_cache["Sales_history"] = EmptyFrame
    /\ WrittenFor("Sales_history") = <<>>

\* C16: nothing is written twice for a query; what is written for it has
\* rows and its write_output flag is set; a query whose result is cached was
\* written exactly when the flag is set and the result has a row, and then
\* with the cached rows; the step that ends a query writes exactly when the
\* flag is set and some batch gave a row, and a query that was skipped, got
\* no row or has the flag unset is cached all the same.
C16_PlainQueryWrite ==
    /\ [](\A k \in DOMAIN queries :
            LET q == queries[k]
                w == WrittenFor(q.name)
            IN  /\ Len(w) <= 1
                /\ \A i \in DOMAIN w :
                      /\ q.write_output
                      /\ w[i].df.rows # <<>>
                      /\ w[i].df.rows = RowsOfBatches(k, Len(SentFor(q.name)))
                /\ q.name \in DOMAIN results_cache =>
                      /\ Len(w) = 1 <=>
                            (q.write_output
                             /\ results_cache[q.name].rows # <<>>)
                      /\ \A i \in DOMAIN w : w[i].df = results_cache[q.name])
    /\ [][(pc = "batch" /\ batches_to_process = <<>>) =>
            LET q == queries[idx]
                rows == RowsOfBatches(idx, Len(SentFor(q.name)))
            IN  /\ written' # written <=> (q.write_output /\ rows # <<>>)
                /\ written' = written =>
                      /\ pc' # "aborted"
                      /\ q.name \in DOMAIN results_cache'
                      /\ results_cache'[q.name].rows = rows]_vars
    /\ [][(pc = "query" /\ pc' \notin {"batch", "aborted"}) =>
            /\ written' = written
            /\ results_cache' = Store(results_cache, queries[idx].name,
                                      EmptyFrame)]_vars

\* the run finished: the first query was written once with its rows, the
\* second has the flag set too, was sent and got no row: it was not written
\* and is cached empty
C16_Witness ==
    /\ pc = "done"
    /\ queries[1].write_output
    /\ Len(WrittenFor(queries[1].name)) = 1
    /\ WrittenFor(queries[1].name)[1].df = results_cache[queries[1].name]
    /\ queries[2].write_output
    /\ Len(SentFor(queries[2].name)) >= 1
    /\ results_cache[queries[2].name] = EmptyFrame
    /\ WrittenFor(queries[2].name) = <<>>

\* a query with rows and the flag unset was cached and not written
UnwrittenQueryReached ==
    /\ pc = "done"
    /\ ~queries[1].write_output
    /\ results_cache[queries[1].name].rows # <<>>
    /\ WrittenFor(queries[1].name) = <<>>

-----------------------------------------------------------------------------
(* The run over results that lack a column *)

\* a result of the reservation query that was selected without some column
Without(frame, column) ==
    [cols |-> frame.cols \ {column},
     rows |-> [i \in DOMAIN frame.rows |->
                 [c \in frame.cols \ {column} |-> frame.rows[i][c]]]]

\* Reservations_history comes without ps__No__c (and with no contact), or
\* without the status; the other two queries are as in Databases
ColumnDatabases ==
    {[n \in {"Reservations_history", "Sales_history", "Reservations_onhand"} |->
        CASE n = "Reservations_history" -> rh
          [] n = "Sales_history" -> sh
          [] OTHER -> ro] :
        rh \in {Without([cols |-> ReservationCols,
                         rows |-> <<Reservation("R1", NULL, "09:00", CONFIRMED,
                                                "N1")>>], NO),
                Without([cols |-> ReservationCols,
                         rows |-> <<Reservation("R1", "C1", "09:00", CONFIRMED,
                                                "N1"),
                                    Reservation("R2", "C1", "10:00", CONFIRMED,
                                                "N2")>>], STATUS)},
        sh \in {[cols |-> SaleCols, rows |-> <<>>],
                [cols |-> SaleCols,
                 rows |-> <<Sale("S1", "R1", "C1"),
                            Sale("S2", "R1", "C2"),
                            Sale("S3", "R9", NULL)>>]},
        ro \in {[cols |-> ReservationCols, rows |-> <<>>],
                [cols |-> ReservationCols,
                 rows |-> <<Reservation("R1", "C1", "11:00", CONFIRMED, "N9"),
                            Reservation("R4", "C1", "12:00", CONFIRMED,
                                        "N4")>>]}}

InitColumns ==
    /\ queries \in QueryLists
    /\ combined_outputs \in CombinedLists
    /\ archive_directory = TRUE
    /\ db \in ColumnDatabases
    /\ now = 0
    /\ pc = "query"
    /\ idx = 1
    /\ results_cache = <<>>
    /\ batches_to_process = <<>>
    /\ dataframes = <<>>
    /\ sent = <<>>
    /\ written = <<>>
    /\ lastSink = "none"
    /\ uploaded = FALSE
    /\ err = "none"
    /\ arg = <<>>
    /\ ret = <<>>

SpecColumns == InitColumns /\ [][Next]_vars

\* the filter's source is cached with rows and does not hold the source field
FilterLacksField(filter_config, cache) ==
    /\ filter_config.source_query \in DOMAIN cache
    /\ cache[filter_config.source_query].rows # <<>>
    /\ filter_config.source_field
          \notin cache[filter_config.source_query].cols

\* the columns the transformations of a combined output need in a reservation
\* reference set
RequiredColumns(name) ==
    IF name \in {"Sales_history_combined", "Sales_onhand_combined"}
    THEN {ID, NO, ENTRY}
    ELSE IF name \in {"Reservations_history_combined",
                      "Reservations_onhand_combined"}
    THEN {ID, CONTACT, ENTRY, STATUS}
    ELSE {}

\* the cached reservation reference sets with rows that lack a column the
\* transformations of the combined output need
Deficient(name, cache) ==
    {key \in Range(RESERVATION_KEYS) \cap DOMAIN cache :
        /\ cache[key].rows # <<>>
        /\ ~(RequiredColumns(name) \subseteq cache[key].cols)}

\* the combined output can be built: its sources are cached and no join raises
Buildable(cc, cache) ==
    /\ SourcesCached(cc, cache)
    /\ Joined(cc, cache).err = "none"

\* the step builds the combined output as if the deficient reference sets
\* were not cached, writes it and caches it (a failing sink aside)
SkipsDeficientSets(cc) ==
    LET rest == [n \in DOMAIN results_cache
                         \ Deficient(cc.name, results_cache) |->
                     results_cache[n]]
        joined == Joined(cc, results_cache).df
    IN  /\ WritesAndCaches(cc)
        /\ \E current \in Nows :
              Last(written').df =
                  IF IsEmpty(joined) THEN joined
                  ELSE apply_custom_transformations(cc.name, joined, rest,
                                                    current)

\* C15 as stated: a filter whose source has rows and lacks the source field
\* aborts the run before a batch of the query is sent; a reference set that
\* lacks a required column is skipped alone and the combined output is still
\* written and cached.
C15_Original ==
    /\ [][(pc = "query"
           /\ \E f \in DOMAIN queries[idx].relationship_filters :
                 FilterLacksField(queries[idx].relationship_filters[f],
                                  results_cache))
          => (pc' = "aborted" /\ sent' = sent)]_vars
    /\ [][(pc = "combined"
           /\ Buildable(combined_outputs[idx], results_cache)
           /\ Deficient(combined_outputs[idx].name, results_cache) # {})
          => SkipsDeficientSets(combined_outputs[idx])]_vars

\* C15 amended: a filter whose source has rows and lacks the source field
\* aborts the run before a batch of the query is sent, provided no filter
\* listed before it has a source without rows or with only null or blank
\* values in its field (the query is then skipped and the run goes on); a
\* reference set that lacks a required column is skipped alone and the
\* combined output is still written and cached.
C15_MissingColumn ==
    /\ [][(pc = "query"
           /\ \E f \in DOMAIN queries[idx].relationship_filters :
                 /\ FilterLacksField(queries[idx].relationship_filters[f],
                                     results_cache)
                 /\ \A g \in 1..(f - 1) :
                       ~SourceIsEmpty(queries[idx].relationship_filters[g],
                                      results_cache))
          => /\ pc' = "aborted"
             /\ err' \in {"missing_column", "dependency"}
             /\ sent' = sent
             /\ SentFor(queries[idx].name) = <<>>
             /\ results_cache' = results_cache]_vars
    /\ [][(pc = "query"
           /\ \E f \in DOMAIN queries[idx].relationship_filters :
                 /\ FilterLacksField(queries[idx].relationship_filters[f],
                                     results_cache)
                 /\ \E g \in 1..(f - 1) :
                       /\ SourceIsEmpty(queries[idx].relationship_filters[g],
                                        results_cache)
                       /\ \A h \in 1..(g - 1) :
                             YieldsChunks(
                                 queries[idx].relationship_filters[h],
                                 results_cache))
          => /\ pc' # "aborted"
             /\ sent' = sent
             /\ results_cache' = Store(results_cache, queries[idx].name,
                                       EmptyFrame)]_vars
    /\ [][(pc = "combined"
           /\ Buildable(combined_outputs[idx], results_cache)
           /\ Deficient(combined_outputs[idx].name, results_cache) # {})
          => SkipsDeficientSets(combined_outputs[idx])]_vars
    /\ Stopped

\* the run stopped at a query whose second filter names a field its source
\* lacks, the first filter yielding chunks, before anything was sent for it
C15_Witness ==
    /\ pc = "aborted"
    /\ err = "missing_column"
    /\ idx = 2
    /\ Len(queries[2].relationship_filters) = 2
    /\ YieldsChunks(queries[2].relationship_filters[1], results_cache)
    /\ FilterLacksField(queries[2].relationship_filters[2], results_cache)
    /\ SentFor(queries[2].name) = <<>>
    /\ NO \notin results_cache["Reservations_history"].cols

\* the run finished with a sales output that took its numbers from the
\* on-hand set because the history set has no ps__No__c
DeficientSetSkippedReached ==
    /\ pc = "done"
    /\ Deficient("Sales_history_combined", results_cache)
          = {"Reservations_history"}
    /\ "Sales_history_combined" \in DOMAIN results_cache
    /\ Len(WrittenFor("Sales_history_combined")) = 1
    /\ NO \in results_cache["Sales_history_combined"].cols
    /\ results_cache["Sales_history_combined"].rows[1][NO] = "N9"

\* the second filter's field is missing from its source, the first filter's
\* source holds no contact: the query was skipped and the run went on
LaterMissingFieldSkipped ==
    /\ pc = "done"
    /\ Len(queries[2].relationship_filters) = 2
    /\ SourceIsEmpty(queries[2].relationship_filters[1], results_cache)
    /\ FilterLacksField(queries[2].relationship_filters[2], results_cache)
    /\ results_cache["Sales_history"] = EmptyFrame

\* the history set lacks the status and number_of_use was counted against
\* the on-hand set alone
StatusMissingReached ==
    /\ pc = "done"
    /\ Deficient("Reservations_history_combined", results_cache)
          = {"Reservations_history"}
    /\ "Reservations_history_combined" \in DOMAIN results_cache
    /\ NUMBER_OF_USE \in results_cache["Reservations_history_combined"].cols
    /\ \E i \in DOMAIN results_cache["Reservations_history_combined"].rows :
          results_cache["Reservations_history_combined"].rows[i][NUMBER_OF_USE]
              = 0

-----------------------------------------------------------------------------
(* The functions on their own: arg is the input, ret the result *)

RunVars == <<queries, combined_outputs, archive_directory, db, now, idx,
             results_cache, batches_to_process, dataframes, sent, written,
             lastSink, uploaded, err>>

\* no run is in progress
Idle ==
    /\ queries = <<>>
    /\ combined_outputs = <<>>
    /\ archive_directory = FALSE
    /\ db = <<>>
    /\ now = 0
    /\ idx = 0
    /\ results_cache = <<>>
    /\ batches_to_process = <<>>
    /\ dataframes = <<>>
    /\ sent = <<>>
    /\ written = <<>>
    /\ lastSink = "none"
    /\ uploaded = FALSE
    /\ err = "none"

(* _build_relationship_batches on one filter *)

MaxValues == 4
MaxChunkSize == 3

Cells == {NULL, "", "a", "b", "7", IntSeven}

SourceFrame(values) ==
    [cols |-> {"Field"},
     rows |-> [i \in DOMAIN values |-> [c \in {"Field"} |-> values[i]]]]

InitBatches ==
    /\ Idle
    /\ pc = "call"
    /\ ret = <<>>
    /\ arg \in {[values |-> v, chunk_size |-> c] :
                  v \in UNION {[1..n -> Cells] : n \in 0..MaxValues},
                  c \in 1..MaxChunkSize}

BuildBatches ==
    /\ pc = "call"
    /\ LET source_df == SourceFrame(arg.values)
           outcome == FilterOutcome(
                          Filter("Source", "Field", "Target", arg.chunk_size),
                          [n \in {"Source"} |-> source_df])
       IN  ret' = [outcome |-> outcome,
                   chunks |-> IF outcome.kind = "chunks"
                              THEN ChunkValues(
                                       UniqueValues(source_df, "Field"),
                                       arg.chunk_size)
                              ELSE <<>>]
    /\ pc' = "return"
    /\ UNCHANGED <<RunVars, arg>>

NextBatches == BuildBatches

SpecBatches == InitBatches /\ [][NextBatches]_vars

\* the stringified values that are not null or blank, each at its first place
FirstSeen(values) ==
    LET marks == [i \in DOMAIN values |->
                    [s |-> Str(values[i]),
                     keep |-> /\ values[i] # NULL
                              /\ Str(values[i]) # ""
                              /\ \A j \in 1..(i - 1) :
                                    \/ values[j] = NULL
                                    \/ Str(values[j]) # Str(values[i])]]
        kept == SelectSeq(marks, LAMBDA m : m.keep)
    IN  [i \in DOMAIN kept |-> kept[i].s]

\* C5: for N > 0 distinct non-null, non-blank stringified values and chunk
\* size C the batcher gives ceil(N / C) conditions, one per chunk; every chunk
\* but the last holds C values, the last between 1 and C; the chunks put end
\* to end are the values de-duplicated in first-seen order.
C5_Chunking ==
    pc = "return" =>
        LET expected == FirstSeen(arg.values)
            N == Len(expected)
            C == arg.chunk_size
            count == (N + C - 1) \div C
        IN  N > 0 =>
              /\ ret.outcome.kind = "chunks"
              /\ Len(ret.outcome.conditions) = count
              /\ Len(ret.chunks) = count
              /\ \A k \in 1..count :
                    ret.outcome.conditions[k]
                        = build_in_condition("Target", ret.chunks[k])
              /\ \A k \in 1..(count - 1) : Len(ret.chunks[k]) = C
              /\ Len(ret.chunks[count]) >= 1
              /\ Len(ret.chunks[count]) <= C
              /\ Flatten(ret.chunks) = expected

\* three distinct values, one of them met twice after str(), in chunks of two
C5_Witness ==
    /\ pc = "return"
    /\ arg.chunk_size = 2
    /\ IntSeven \in Range(arg.values)
    /\ "7" \in Range(arg.values)
    /\ Len(ret.chunks) = 2
    /\ Len(ret.chunks[1]) = 2
    /\ Len(ret.chunks[2]) = 1

(* build_query *)

MaxTail == 3
MaxConds == 2

TailAtoms == {" ", "\n", "WHERE", "where", "x"}

Templates ==
    {<<"SELECT", " ", "T">> \o tail :
        tail \in UNION {[1..n -> TailAtoms] : n \in 0..MaxTail}}

StaticFilters == {<<>>, <<"Live">>, <<" ">>}

ExtraConditions == {<<>>, <<" ">>, <<"c1">>, <<" ", "c2", " ">>}

InitBuildQuery ==
    /\ Idle
    /\ pc = "call"
    /\ ret = <<>>
    /\ arg \in {[soql |-> t, where |-> w, additional_conditions |-> cs] :
                  t \in Templates, w \in StaticFilters,
                  cs \in UNION {[1..n -> ExtraConditions] : n \in 0..MaxConds}}

BuildQuery ==
    /\ pc = "call"
    /\ ret' = build_query(arg.soql, arg.where, arg.additional_conditions)
    /\ pc' = "return"
    /\ UNCHANGED <<RunVars, arg>>

NextBuildQuery == BuildQuery

SpecBuildQuery == InitBuildQuery /\ [][NextBuildQuery]_vars

\* atom i of the text is the keyword WHERE, in any letter case: a word of
\* its own
KeywordAt(t, i) ==
    /\ t[i] \in {"WHERE", "Where", "where"}
    /\ i = 1 \/ t[i - 1] \in Whitespace
    /\ i = Len(t) \/ t[i + 1] \in Whitespace

WhereCount(t) == Cardinality({i \in DOMAIN t : KeywordAt(t, i)})

\* the conditions that have a non-blank atom, trimmed
NonBlank(conds) ==
    LET kept == SelectSeq(conds, LAMBDA c : \E i \in DOMAIN c :
                                               c[i] \notin Whitespace)
    IN  [i \in DOMAIN kept |-> Strip(kept[i])]

\* C6: without a static filter and a non-blank extra condition the result is
\* the trimmed template; otherwise the static filter and then the extra
\* conditions follow it, joined by AND, attached with AND when the template
\* has a WHERE keyword and with WHERE otherwise, so that a template with a
\* WHERE keyword never gains another one.
C6_ClausePlacement ==
    pc = "return" =>
        LET base == Strip(arg.soql)
            all == (IF arg.where # <<>> THEN <<Strip(arg.where)>> ELSE <<>>)
                       \o NonBlank(arg.additional_conditions)
            glue == IF WhereCount(base) > 0 THEN "AND" ELSE "WHERE"
        IN  /\ all = <<>> => ret = base
            /\ all # <<>> =>
                  ret = base \o <<" ", glue, " ">>
                             \o Join(<<" ", "AND", " ">>, all)
            /\ WhereCount(base) > 0 => WhereCount(ret) = WhereCount(base)

(* _add_number_of_use *)

MaxRows == 2

OutputRow(contact, entry) ==
    [c \in {CONTACT, ENTRY} |-> IF c = CONTACT THEN contact ELSE entry]

OutputRows ==
    {OutputRow(contact, entry) :
        contact \in {NULL, "C1", "C2"},
        entry \in {NULL, "bad", "09:00", "10:00", "12:00"}}

StatusRow(contact, entry, status) ==
    [c \in {CONTACT, ENTRY, STATUS} |->
        CASE c = CONTACT -> contact
          [] c = ENTRY -> entry
          [] OTHER -> status]

HistoryFrames ==
    {EmptyFrame,
     [cols |-> ReservationCols,
      rows |-> <<Reservation("R1", "C1", "09:00", CONFIRMED, "N1"),
                 Reservation("R2", "C1", "10:00", CONFIRMED, "N2"),
                 Reservation("R3", "C2", "10:00", "cancelled", "N3")>>],
     [cols |-> {CONTACT, ENTRY, STATUS},
      rows |-> <<StatusRow("C1", "09:00", CONFIRMED)>>]}

OnhandFrames ==
    {[cols |-> ReservationCols,
      rows |-> <<Reservation("R4", "C1", "11:00", CONFIRMED, "N4"),
                 Reservation("R5", NULL, "09:00", CONFIRMED, "N5"),
                 Reservation("R6", "C2", "bad", CONFIRMED, "N6"),
                 Reservation("R7", "C2", "12:00", CONFIRMED, "N7")>>],
     [cols |-> ReservationCols,
      rows |-> <<Reservation("R1", "C1", "09:00", CONFIRMED, "N1")>>]}

ReferenceCaches ==
    {<<>>}
        \cup {[n \in {"Reservations_history"} |-> h] : h \in HistoryFrames}
        \cup {[n \in {"Reservations_onhand"} |-> o] : o \in OnhandFrames}
        \cup {[n \in {"Reservations_history", "Reservations_onhand"} |->
                 IF n = "Reservations_history" THEN h ELSE o] :
                h \in HistoryFrames, o \in OnhandFrames}

InitNumberOfUse ==
    /\ Idle
    /\ pc = "call"
    /\ ret = <<>>
    /\ arg \in {[df |-> [cols |-> {CONTACT, ENTRY}, rows |-> rows],
                 cache |-> cache, current |-> current] :
                  rows \in UNION {[1..n -> OutputRows] : n \in 1..MaxRows},
                  cache \in ReferenceCaches, current \in Nows}

AddNumberOfUse ==
    /\ pc = "call"
    /\ ret' = add_number_of_use(arg.df, arg.cache, arg.current)
    /\ pc' = "return"
    /\ UNCHANGED <<RunVars, arg>>

NextNumberOfUse == AddNumberOfUse

SpecNumberOfUse == InitNumberOfUse /\ [][NextNumberOfUse]_vars

\* the reference entries of a subject: the rows <<set, number>> of the
\* reservation sets the transformation uses (cached and holding the columns
\* Id, contact, entry time and status) that are confirmed, belong to the
\* subject and have a parsable time
ReferenceEntries(cache, subject) ==
    {e \in UNION {{<<key, j>> : j \in DOMAIN cache[key].rows} :
                    key \in {k \in DOMAIN cache :
                               {ID, CONTACT, ENTRY, STATUS}
                                   \subseteq cache[k].cols}} :
        /\ cache[e[1]].rows[e[2]][STATUS] = CONFIRMED
        /\ cache[e[1]].rows[e[2]][CONTACT] = subject
        /\ ParseTime(cache[e[1]].rows[e[2]][ENTRY]) # NaT}

ReferenceTime(cache, e) == ParseTime(cache[e[1]].rows[e[2]][ENTRY])

\* C10: a row with subject s and parsable time T gets the number of confirmed
\* reference entries of s, over both reservation sets, that are earlier than
\* T when T <= now, and that are not later than now when T > now; a row with
\* no subject or no parsable time gets 0, and so does a subject without
\* reference entries.
C10_NumberOfUse ==
    pc = "return" =>
        /\ ret.cols = arg.df.cols \cup {NUMBER_OF_USE}
        /\ Len(ret.rows) = Len(arg.df.rows)
        /\ \A i \in DOMAIN arg.df.rows :
              LET s == arg.df.rows[i][CONTACT]
                  T == ParseTime(arg.df.rows[i][ENTRY])
                  refs == ReferenceEntries(arg.cache, s)
              IN  /\ ret.rows[i][CONTACT] = s
                  /\ ret.rows[i][ENTRY] = arg.df.rows[i][ENTRY]
                  /\ ret.rows[i][NUMBER_OF_USE] =
                        IF s = NULL \/ T = NaT THEN 0
                        ELSE IF T <= arg.current
                        THEN Cardinality({e \in refs :
                                 ReferenceTime(arg.cache, e) < T})
                        ELSE Cardinality({e \in refs :
                                 ReferenceTime(arg.cache, e) <= arg.current})

\* reference times 09:00, 10:00 and 11:00 and now = 10:30: the row at 10:00
\* gets 1, the row at 12:00 gets 2
C10_Witness ==
    /\ pc = "return"
    /\ arg.current = 21
    /\ arg.df.rows = <<OutputRow("C1", "10:00"), OutputRow("C1", "12:00")>>
    /\ DOMAIN arg.cache = {"Reservations_history", "Reservations_onhand"}
    /\ {ParseTime(arg.cache[e[1]].rows[e[2]][ENTRY]) :
            e \in ReferenceEntries(arg.cache, "C1")} = {18, 20, 22}
    /\ ret.rows[1][NUMBER_OF_USE] = 1
    /\ ret.rows[2][NUMBER_OF_USE] = 2

(* _add_reservation_details *)

MaxSales == 2

\* a sales row that refers to a reservation
SalesRows == {Sale("S", reserve, "C1") : reserve \in {NULL, "R1", "R2", "R4", "R9"}}

\* the shapes of the input: with the reference column, without it, and with
\* an attribute column that is already filled
SalesFrames(rows) ==
    {[cols |-> SaleCols, rows |-> rows],
     [cols |-> SaleCols \ {RELRESERVE},
      rows |-> [i \in DOMAIN rows |->
                  [c \in SaleCols \ {RELRESERVE} |-> rows[i][c]]]],
     [cols |-> SaleCols \cup {NO},
      rows |-> [i \in DOMAIN rows |->
                  [c \in SaleCols \cup {NO} |->
                      IF c = NO THEN "old" ELSE rows[i][c]]]]}

\* Reservations_history as cached: empty, with R1 twice, without ps__No__c
BackfillHistory ==
    {EmptyFrame,
     [cols |-> ReservationCols,
      rows |-> <<Reservation("R1", "C1", "09:00", CONFIRMED, "N1"),
                 Reservation("R2", "C1", "10:00", CONFIRMED, "N2"),
                 Reservation("R1", "C2", "11:00", CONFIRMED, "N3")>>],
     [cols |-> ReservationCols \ {NO},
      rows |-> <<[c \in ReservationCols \ {NO} |->
                    Reservation("R1", "C1", "09:00", CONFIRMED, "N1")[c]]>>]}

\* Reservations_onhand as cached: empty, with R1 again, without the entry time
BackfillOnhand ==
    {EmptyFrame,
     [cols |-> ReservationCols,
      rows |-> <<Reservation("R4", "C1", "12:00", CONFIRMED, "N4"),
                 Reservation("R1", "C1", "10:30", CONFIRMED, "N9")>>],
     [cols |-> ReservationCols \ {ENTRY},
      rows |-> <<[c \in ReservationCols \ {ENTRY} |->
                    Reservation("R1", "C1", "10:30", CONFIRMED, "N9")[c]]>>]}

BackfillCaches ==
    {<<>>}
        \cup {[n \in {"Reservations_history"} |-> h] : h \in BackfillHistory}
        \cup {[n \in {"Reservations_onhand"} |-> o] : o \in BackfillOnhand}
        \cup {[n \in {"Reservations_history", "Reservations_onhand"} |->
                 IF n = "Reservations_history" THEN h ELSE o] :
                h \in BackfillHistory, o \in BackfillOnhand}

InitBackfill ==
    /\ Idle
    /\ pc = "call"
    /\ ret = <<>>
    /\ arg \in {[df |-> df, cache |-> cache] :
                  df \in UNION {SalesFrames(rows) :
                          rows \in UNION {[1..n -> SalesRows] :
                                            n \in 1..MaxSales}},
                  cache \in BackfillCaches}

AddReservationDetails ==
    /\ pc = "call"
    /\ ret' = add_reservation_details(arg.df, arg.cache)
    /\ pc' = "return"
    /\ UNCHANGED <<RunVars, arg>>

NextBackfill == AddReservationDetails

SpecBackfill == InitBackfill /\ [][NextBackfill]_vars

\* the reference sets the backfill can use, in the order history, on-hand:
\* cached, with rows, and holding the identifier and both attributes
UsableSets(cache) ==
    SelectSeq(RESERVATION_KEYS,
              LAMBDA key : /\ key \in DOMAIN cache
                           /\ cache[key].rows # <<>>
                           /\ {ID, NO, ENTRY} \subseteq cache[key].cols)

\* the reference rows <<position of the set, number of the row>> that carry
\* the identifier
Carriers(cache, id) ==
    LET sets == UsableSets(cache) IN
    {e \in UNION {{<<k, j>> : j \in DOMAIN cache[sets[k]].rows} :
                    k \in DOMAIN sets} :
        cache[sets[e[1]]].rows[e[2]][ID] = id}

\* e comes before f: an earlier set, or an earlier row of the same set
Before(e, f) == e[1] < f[1] \/ (e[1] = f[1] /\ e[2] < f[2])

\* C11: the backfill returns its input as it is when the input has no
\* reference column or when no reference set is usable (a set that is not
\* cached, is empty or lacks a required column is left out on its own);
\* otherwise every row keeps its other cells and gets the number and the
\* entry time of the first reference row carrying its identifier, history
\* before on-hand and in row order inside a set, and null when there is none.
C11_Backfill ==
    pc = "return" =>
        LET sets == UsableSets(arg.cache) IN
        IF RELRESERVE \notin arg.df.cols \/ sets = <<>>
        THEN ret = arg.df
        ELSE /\ ret.cols = arg.df.cols \cup {NO, ENTRY}
             /\ Len(ret.rows) = Len(arg.df.rows)
             /\ \A i \in DOMAIN arg.df.rows :
                   LET id == arg.df.rows[i][RELRESERVE]
                       carriers == Carriers(arg.cache, id)
                   IN  /\ \A c \in arg.df.cols \ {NO, ENTRY} :
                             ret.rows[i][c] = arg.df.rows[i][c]
                       /\ carriers = {} =>
                             /\ ret.rows[i][NO] = NULL
                             /\ ret.rows[i][ENTRY] = NULL
                       /\ \A e \in carriers :
                             (\A f \in carriers : ~Before(f, e)) =>
                                LET first == arg.cache[sets[e[1]]].rows[e[2]]
                                IN  /\ ret.rows[i][NO] = first[NO]
                                    /\ ret.rows[i][ENTRY] = first[ENTRY]

\* R1 is met twice in the history set and once in the on-hand set, each time
\* with other attributes; the row gets those of the first history row, and a
\* row referring to R4 gets those of the on-hand set
C11_Witness ==
    /\ pc = "return"
    /\ DOMAIN arg.cache = {"Reservations_history", "Reservations_onhand"}
    /\ Cardinality(Carriers(arg.cache, "R1")) = 3
    /\ Len(arg.df.rows) = 2
    /\ arg.df.cols = SaleCols \cup {NO}
    /\ arg.df.rows[1][RELRESERVE] = "R1"
    /\ arg.df.rows[2][RELRESERVE] = "R4"
    /\ ret.rows[1][NO] = "N1"
    /\ ret.rows[1][ENTRY] = "09:00"
    /\ ret.rows[2][NO] = "N4"

\* the history set lacks a required column and is left out: the attributes
\* come from the on-hand set alone
C11_SkippedSetReached ==
    /\ pc = "return"
    /\ DOMAIN arg.cache = {"Reservations_history", "Reservations_onhand"}
    /\ NO \notin arg.cache["Reservations_history"].cols
    /\ arg.cache["Reservations_history"].rows # <<>>
    /\ RELRESERVE \in arg.df.cols
    /\ arg.df.rows[1][RELRESERVE] = "R1"
    /\ UsableSets(arg.cache) = <<"Reservations_onhand">>
    /\ ret.rows[1][NO] = "N9"

(* _apply_joins *)

MaxJoinRows == 2

JoinKeys == {NULL, "k1", "k2"}

\* a result set of up to MaxJoinRows rows: the identifiers are tag1, tag2, ...,
\* the key column is named key; the empty result has no columns
JoinFrames(tag, key) ==
    {EmptyFrame}
        \cup {[cols |-> {ID, key, "X"},
               rows |-> [i \in 1..n |->
                           [c \in {ID, key, "X"} |->
                               IF c = ID THEN tag \o ToString(i)
                               ELSE IF c = key THEN ks[i]
                               ELSE "x"]]] :
                n \in 1..MaxJoinRows, ks \in [1..MaxJoinRows -> JoinKeys]}

\* the source of a second join: k1 twice, and a key nothing else carries
ThirdFrame ==
    [cols |-> {"Key", "Z"},
     rows |-> <<[c \in {"Key", "Z"} |-> IF c = "Key" THEN "k1" ELSE "z1"],
                [c \in {"Key", "Z"} |-> IF c = "Key" THEN "k1" ELSE "z2"],
                [c \in {"Key", "Z"} |-> IF c = "Key" THEN "k9" ELSE "z3"]>>]

JoinKinds == {"inner", "left", "right", "outer"}

InitJoins ==
    /\ Idle
    /\ pc = "call"
    /\ ret = <<>>
    /\ arg \in UNION {
          {[df |-> left,
            cache |-> [n \in {"Other", "Third"} |->
                         IF n = "Other" THEN right ELSE ThirdFrame],
            joins |-> <<[JoinSpec("Other", <<"Key">>, <<rk>>, how)
                           EXCEPT !.suffixes = sfx]>> \o more] :
             left \in JoinFrames("L", "Key"),
             right \in JoinFrames("P", rk),
             how \in JoinKinds,
             sfx \in {<<>>, <<"_l", "_r">>},
             more \in {<<>>}
                \cup {<<JoinSpec("Third", <<"Key">>, <<"Key">>, h2)>> :
                        h2 \in {"inner", "outer"}}} :
          rk \in {"Key", "Ref"}}

ApplyJoins ==
    /\ pc = "call"
    /\ ret' = apply_joins(arg.df, arg.joins, arg.cache)
    /\ pc' = "return"
    /\ UNCHANGED <<RunVars, arg>>

NextJoins == ApplyJoins

SpecJoins == InitJoins /\ [][NextJoins]_vars

\* the rows of the output that carry the pair of identifiers <<lid, rid>>
PairRows(out, lname, rname, lid, rid) ==
    {k \in DOMAIN out.rows :
        out.rows[k][lname] = lid /\ out.rows[k][rname] = rid}

\* a single join on one key, as a relation between the two inputs and the
\* output: one row per pair of rows with equal keys, carrying the cells of
\* both; one row per left row without a match for left and outer joins and
\* per right row without a match for right and outer joins, carrying null in
\* the columns of the other side; and no other row
SingleJoinHolds(left, right, join, out) ==
    LET lk == join.left_on[1]
        rk == join.right_on[1]
        how == join.how
        lname(c) == LeftName(c, left, right, join)
        rname(c) == IF c = rk /\ lk = rk THEN c
                    ELSE RightName(c, left, right, join)
        rcols == right.cols \ (IF lk = rk THEN {rk} ELSE {})
        lids == {left.rows[i][ID] : i \in DOMAIN left.rows}
        rids == {right.rows[j][ID] : j \in DOMAIN right.rows}
        matchedL(i) == \E j \in DOMAIN right.rows :
                          left.rows[i][lk] = right.rows[j][rk]
        matchedR(j) == \E i \in DOMAIN left.rows :
                          left.rows[i][lk] = right.rows[j][rk]
    IN  /\ out.cols = {lname(c) : c \in left.cols}
                        \cup {rname(c) : c \in rcols}
        /\ \A i \in DOMAIN left.rows, j \in DOMAIN right.rows :
              LET rows == PairRows(out, lname(ID), rname(ID),
                                   left.rows[i][ID], right.rows[j][ID])
              IN  IF left.rows[i][lk] = right.rows[j][rk]
                  THEN /\ Cardinality(rows) = 1
                       /\ \A k \in rows :
                             /\ \A c \in left.cols :
                                   out.rows[k][lname(c)] = left.rows[i][c]
                             /\ \A c \in rcols :
                                   out.rows[k][rname(c)] = right.rows[j][c]
                             /\ out.rows[k][lname(lk)] = out.rows[k][rname(rk)]
                  ELSE rows = {}
        /\ \A i \in DOMAIN left.rows :
              LET rows == PairRows(out, lname(ID), rname(ID),
                                   left.rows[i][ID], NULL)
              IN  IF ~matchedL(i) /\ how \in {"left", "outer"}
                  THEN /\ Cardinality(rows) = 1
                       /\ \A k \in rows :
                             /\ \A c \in left.cols :
                                   out.rows[k][lname(c)] = left.rows[i][c]
                             /\ \A c \in rcols : out.rows[k][rname(c)] = NULL
                  ELSE rows = {}
        /\ \A j \in DOMAIN right.rows :
              LET rows == PairRows(out, lname(ID), rname(ID),
                                   NULL, right.rows[j][ID])
              IN  IF ~matchedR(j) /\ how \in {"right", "outer"}
                  THEN /\ Cardinality(rows) = 1
                       /\ \A k \in rows :
                             /\ \A c \in right.cols :
                                   out.rows[k][rname(c)] = right.rows[j][c]
                             /\ \A c \in left.cols \ {rname(rk)} :
                                   out.rows[k][lname(c)] = NULL
                  ELSE rows = {}
        /\ \A k \in DOMAIN out.rows :
              /\ out.rows[k][lname(ID)] \in lids \cup {NULL}
              /\ out.rows[k][rname(ID)] \in rids \cup {NULL}
              /\ out.rows[k][lname(ID)] # NULL \/ out.rows[k][rname(ID)] # NULL

\* the joins of sets that all have columns: a single join gives the rows of
\* SingleJoinHolds, two joins give what the second join gives on the result
\* of the first
JoinsOfFilledSets ==
    (pc = "return" /\ arg.df # EmptyFrame /\ arg.cache["Other"] # EmptyFrame) =>
        LET first == apply_joins(arg.df, <<arg.joins[1]>>, arg.cache) IN
        /\ ret.err = "none"
        /\ Len(arg.joins) = 1 =>
              SingleJoinHolds(arg.df, arg.cache[arg.joins[1].source_query],
                              arg.joins[1], ret.df)
        /\ Len(arg.joins) = 2 =>
              /\ ret = apply_joins(first.df, <<arg.joins[2]>>, arg.cache)
              /\ ret.df.cols = first.df.cols \cup {"Z"}

\* C12: the joins are folded in declaration order, the result of a join being
\* the left input of the next; a single join on one key gives one row per
\* pair of rows with equal keys, drops a row without a match when it is an
\* inner join and keeps it with nulls on the other side when it is a left
\* (left rows), right (right rows) or outer (both) join; this for every
\* cached result set, one without rows included.
C12_Joins ==
    pc = "return" =>
        LET first == apply_joins(arg.df, <<arg.joins[1]>>, arg.cache) IN
        /\ ret.err = "none"
        /\ Len(arg.joins) = 1 =>
              SingleJoinHolds(arg.df, arg.cache[arg.joins[1].source_query],
                              arg.joins[1], ret.df)
        /\ Len(arg.joins) = 2 =>
              ret = apply_joins(first.df, <<arg.joins[2]>>, arg.cache)

\* a left join of a set with rows against a cached set without rows: no row
\* has a match, and the merge raises instead of keeping the left rows
EmptySourceJoinReached ==
    /\ pc = "return"
    /\ Len(arg.joins) = 1
    /\ arg.joins[1].how = "left"
    /\ arg.df.rows # <<>>
    /\ arg.cache["Other"] = EmptyFrame
    /\ ret.err = "merge"

\* an outer join of two rows on each side where one pair matches: three rows,
\* one matched, one left row and one right row padded with nulls
OuterJoinReached ==
    /\ pc = "return"
    /\ Len(arg.joins) = 1
    /\ arg.joins[1].how = "outer"
    /\ arg.joins[1].right_on = <<"Ref">>
    /\ arg.joins[1].suffixes = <<>>
    /\ ret.err = "none"
    /\ Len(arg.df.rows) = 2
    /\ Len(arg.cache["Other"].rows) = 2
    /\ Len(ret.df.rows) = 3
    /\ \E k \in DOMAIN ret.df.rows :
          ret.df.rows[k]["Key"] = "k1" /\ ret.df.rows[k]["Ref"] = "k1"
    /\ \E k \in DOMAIN ret.df.rows :
          ret.df.rows[k]["Key"] = "k2" /\ ret.df.rows[k]["Ref"] = NULL
    /\ \E k \in DOMAIN ret.df.rows :
          ret.df.rows[k]["Key"] = NULL /\ ret.df.rows[k]["Id_Other"] = "P2"

\* two joins: the rows the first join kept are matched against the second
\* source, the row with k1 twice
FoldReached ==
    /\ pc = "return"
    /\ Len(arg.joins) = 2
    /\ arg.joins[1].how = "left"
    /\ ret.err = "none"
    /\ Len(arg.df.rows) = 1
    /\ Len(ret.df.rows) = 2
    /\ "Z" \in ret.df.cols
    /\ ret.df.rows[1]["Z"] = "z1"
    /\ ret.df.rows[2]["Z"] = "z2"

====
